---- MODULE Spec2Model ----
(***************************************************************************)
(* Model of upkg's stats aggregation (src/src/pacman.rs get_stats and its  *)
(* probes, src/src/stats.rs request helpers) and of the database-sync      *)
(* driver (run_pacman_sync with SyncProgress).                             *)
(*                                                                         *)
(* Option<T> is modelled as a sequence of length at most one:              *)
(*   None == <<>>,  Some(x) == <<x>>.                                      *)
(* A size in MiB (an f64 obtained as bytes / 1048576.0, which is exact for *)
(* the byte counts used here) is represented by its numerator in bytes.    *)
(* A Rust string is a sequence of one-character strings.                   *)
(***************************************************************************)
EXTENDS Integers, Sequences, FiniteSets, TLC

VARIABLES
    requested,      \* get_stats: the `requested: &[StatId]` argument
    pc,             \* get_stats: position of the calling thread
    stats,          \* get_stats: `let mut stats = ManagerStats::default()`
    sync_handle,    \* get_stats: Option<JoinHandle>, TRUE when Some
    worker_pc,      \* the thread spawned at pacman.rs:606
    worker_url,     \* mirror_url_clone moved into the worker closure
    worker_result,  \* value the worker closure returned (Option<f64>)
    calls,          \* instrumentation: probes invoked so far, in order
    sync_pc,        \* run_pacman_sync: position of the driver
    progress,       \* run_pacman_sync: `let mut progress = SyncProgress::new()`
    line_buffer,    \* both drivers: `let mut line_buffer = String::new()`
    output,         \* the bytes the pacman subprocess emits before it exits
    written,        \* how many of them the subprocess has written to the PTY
    consumed,       \* how many of them try_read has handed to the driver
    proc_alive,     \* whether the subprocess is still running
    exit_cause,     \* instrumentation: which branch left the driver's loop
    at_exit,        \* instrumentation: the tracker when the loop was left
    read_result,    \* instrumentation: what the last try_read returned
    is_root,        \* util::is_root(): geteuid() == 0
    pty_pc,         \* run_pacman_pty: position of the driver
    filter,         \* run_pacman_pty: the `filter: bool` argument
    term,           \* what a driver did on stdout, stdin, the session, the tracker
    chunk_rest,     \* run_pacman_pty: characters of the chunk not yet scanned
    seen,           \* instrumentation: the characters a driver has scanned
    up_pc,          \* upgrade_system / sync_databases: position of the caller
    text_mode,      \* upgrade_system: the `text_mode: bool` argument
    sync_first,     \* upgrade_system: the `sync_first: bool` argument
    steps,          \* instrumentation: what upgrade_system has done, in order
    st_pc,          \* speed test: position of the caller (main thread)
    tw_pc,          \* the thread spawned at main.rs:150
    progress_q,     \* mpsc channel of progress values: what is in flight
    progress_tx,    \* whether its Sender still exists
    speed_q,        \* mpsc channel of the final speed: what is in flight
    speed_tx,       \* whether its Sender still exists
    body_len,       \* bytes the mirror will deliver for the test file
    total_size,     \* worker: response.content_length().unwrap_or(0)
    downloaded,     \* worker: `let mut downloaded: u64 = 0`
    tw_speed,       \* worker: what test_mirror_speed_with_progress returned
    pb_position,    \* caller: position of the progress bar
    spinner,        \* caller: frame of the progress bar's spinner
    speed,          \* caller: what speed_rx.recv() returned
    arg,            \* input of the pure function under check
    ret             \* its result

stats_vars == <<requested, pc, stats, sync_handle, worker_pc, worker_url,
                worker_result, calls>>

sync_vars == <<sync_pc, progress, line_buffer, output, written, consumed,
               proc_alive, exit_cause, at_exit, read_result, is_root>>

pty_vars == <<pty_pc, filter, term, chunk_rest, seen>>

speed_vars == <<st_pc, tw_pc, progress_q, progress_tx, speed_q, speed_tx, body_len,
                total_size, downloaded, tw_speed, pb_position, spinner, speed>>

upgrade_vars == <<up_pc, text_mode, sync_first, steps>>

up_vars == <<up_pc, text_mode, sync_first, steps, speed_vars>>

pure_vars == <<arg, ret>>

rest_vars == <<pty_vars, up_vars, pure_vars>>

vars == <<stats_vars, sync_vars, rest_vars>>

----------------------------------------------------------------------------
(* Option<T> *)

None == <<>>

Some(x) == <<x>>

IsSome(o) == Len(o) = 1

----------------------------------------------------------------------------
(* src/src/stats.rs *)

StatId == {"Installed", "Upgradable", "LastUpdate", "DownloadSize",
           "InstalledSize", "NetUpgradeSize", "OrphanedPackages",
           "CacheSize", "MirrorUrl", "MirrorHealth"}

\* requested.contains(&id)
contains(req, id) == \E i \in 1..Len(req) : req[i] = id

\* bug: NetUpgradeSize left out of the match
needs_upgrade_stats_no_net(req) ==
    \E i \in 1..Len(req) :
        req[i] \in {"Upgradable", "DownloadSize", "InstalledSize"}

needs_upgrade_stats(req) ==
    \E i \in 1..Len(req) :
        req[i] \in {"Upgradable", "DownloadSize", "InstalledSize", "NetUpgradeSize"}

\* bug: the orphan scan is not gated by the request
needs_orphan_stats_always(req) == TRUE

needs_orphan_stats(req) == contains(req, "OrphanedPackages")

\* bug: the body of needs_mirror_url pasted into needs_mirror_health
needs_mirror_health_or_url(req) ==
    contains(req, "MirrorUrl") \/ contains(req, "MirrorHealth")

needs_mirror_health(req) == contains(req, "MirrorHealth")

needs_mirror_url(req) == contains(req, "MirrorUrl") \/ needs_mirror_health(req)

----------------------------------------------------------------------------
(* Bounds of the model *)

\* longest request enumerated in arbitrary order, repetitions included
MaxReqLen == 2

\* most identifiers a display-order request leaves out
MaxMissing == 1

\* largest line count `pacman -Q` prints in the model
MaxInstalled == 1

----------------------------------------------------------------------------
(* Environment of the probes: what the files, databases, subprocesses and  *)
(* the mirror can answer.                                                  *)

MiB == 1048576

\* localdb.pkg(name): installed size of the locally installed package, if any
localdb_pkg(name) ==
    CASE name = "a" -> Some(2 * MiB)
      [] name = "c" -> Some(5000)
      [] name = "d" -> Some(MiB)
      [] OTHER      -> None

\* packages a simulated transaction can add: an upgrade of "a", a new
\* install of "b", an upgrade of "c" that grows it by less than 0.01 MiB
PkgA == [name |-> "a", download_size |-> MiB, isize |-> 3 * MiB]

PkgB == [name |-> "b", download_size |-> 2 * MiB, isize |-> 4 * MiB]

PkgC == [name |-> "c", download_size |-> 100, isize |-> 9000]

\* a locally installed package a transaction can remove
PkgD == [name |-> "d", download_size |-> 0, isize |-> MiB]

AlpmStages == {"new", "trans_init", "sync_sysupgrade", "trans_prepare"}

\* outcome of the libalpm calls of get_upgrade_sizes: the stage that fails
\* ("none" when all succeed) and the prepared transaction
UpgradeEnv(f, a, r) == [fail |-> f, adds |-> a, removes |-> r]

UpgradeEnvs ==
    {UpgradeEnv(f, <<>>, <<>>) : f \in AlpmStages}
    \cup {UpgradeEnv("none", <<>>, <<>>),
          UpgradeEnv("none", <<PkgB>>, <<>>),
          UpgradeEnv("none", <<>>, <<PkgD>>),
          UpgradeEnv("none", <<PkgA, PkgC>>, <<PkgD>>)}

\* local database scanned by get_orphaned_packages
LocalPkg(n, reason, req, opt, size) ==
    [name |-> n, reason |-> reason, required_by |-> req, optional_for |-> opt,
     isize |-> size]

OrphanEnvs ==
    {[alpm_ok |-> FALSE, pkgs |-> <<>>],
     [alpm_ok |-> TRUE, pkgs |-> <<>>],
     [alpm_ok |-> TRUE,
      pkgs |-> <<LocalPkg("a", "Explicit", 0, 0, 2 * MiB),
                 LocalPkg("c", "Depend", 0, 0, 5000),
                 LocalPkg("d", "Depend", 1, 0, MiB),
                 LocalPkg("e", "Depend", 0, 1, MiB)>>]}

\* /etc/pacman.d/mirrorlist: each trimmed line either starts with
\* "Server = " (then `base` is the text before "/$repo") or does not
MirrorLine(isServer, base) == [server |-> isServer, base |-> base]

MirrorlistEnvs ==
    {[readable |-> FALSE, lines |-> <<>>],
     [readable |-> TRUE, lines |-> <<MirrorLine(FALSE, "")>>],
     [readable |-> TRUE,
      lines |-> <<MirrorLine(FALSE, ""), MirrorLine(TRUE, "https://m1"),
                  MirrorLine(TRUE, "https://m2")>>]}

\* `pacman -Q`: spawn failure, or a number of output lines
InstalledEnvs ==
    {[spawn_ok |-> FALSE, lines |-> 0]}
    \cup {[spawn_ok |-> TRUE, lines |-> n] : n \in 0..MaxInstalled}

\* /var/cache/pacman/pkg: read_dir failure, or directory entries
CacheEntry(ok, isFile, len) == [ok |-> ok, is_file |-> isFile, len |-> len]

CacheEnvs ==
    {[readable |-> FALSE, entries |-> <<>>],
     [readable |-> TRUE,
      entries |-> <<CacheEntry(TRUE, TRUE, MiB), CacheEntry(FALSE, TRUE, MiB),
                    CacheEntry(TRUE, FALSE, 4096), CacheEntry(TRUE, TRUE, 2 * MiB)>>]}

\* `pacman --version`: spawn failure, or output lines
VersionLine(p, l, text) == [pacman_v |-> p, libalpm_v |-> l, text |-> text]

VersionEnvs ==
    {[spawn_ok |-> FALSE, lines |-> <<>>],
     [spawn_ok |-> TRUE, lines |-> <<VersionLine(FALSE, FALSE, "")>>],
     [spawn_ok |-> TRUE,
      lines |-> <<VersionLine(FALSE, FALSE, ""),
                  VersionLine(TRUE, TRUE, "Pacman v7.0.0 - libalpm v15.0.0")>>]}

\* /var/log/pacman.log: a line carries a bracketed timestamp and may contain
\* the markers "starting full system upgrade" and "transaction completed".
\* A timestamp is its well-formedness and the seconds elapsed since it
\* (negative when it lies in the future).
Timestamp(valid, age) == [valid |-> valid, age |-> age]

LogLine(ts, start, completed) == [timestamp |-> ts, start |-> start, completed |-> completed]

TsOld == Timestamp(TRUE, 7200)

TsFuture == Timestamp(TRUE, -60)

TsBad == Timestamp(FALSE, 0)

LogEnvs ==
    {[readable |-> FALSE, lines |-> <<>>],
     [readable |-> TRUE, lines |-> <<>>],
     [readable |-> TRUE, lines |-> <<LogLine(TsOld, TRUE, FALSE)>>],
     [readable |-> TRUE,
      lines |-> <<LogLine(TsOld, TRUE, FALSE), LogLine(TsOld, FALSE, TRUE)>>],
     [readable |-> TRUE,
      lines |-> <<LogLine(TsFuture, TRUE, FALSE), LogLine(TsFuture, FALSE, TRUE)>>],
     [readable |-> TRUE,
      lines |-> <<LogLine(TsBad, TRUE, FALSE), LogLine(TsBad, FALSE, TRUE)>>]}

\* the mirror's /lastsync answer as seen by check_mirror_sync: the stage
\* that fails ("none" when all succeed) and the age in seconds of the
\* timestamp served; "panic" is a panic inside the worker thread
SyncStages == {"build", "send", "status", "text", "parse", "panic"}

MirrorSyncEnvs ==
    {[fail |-> f, age_seconds |-> 0] : f \in SyncStages}
    \cup {[fail |-> "none", age_seconds |-> a] : a \in {7200, -3600}}

----------------------------------------------------------------------------
(* Probes, src/src/pacman.rs *)

\* ManagerStats::default()
DefaultStats ==
    [total_installed |-> 0,
     total_upgradable |-> 0,
     days_since_last_update |-> None,
     download_size_mb |-> None,
     total_installed_size_mb |-> None,
     net_upgrade_size_mb |-> None,
     orphaned_packages |-> None,
     orphaned_size_mb |-> None,
     cache_size_mb |-> None,
     mirror_url |-> None,
     mirror_sync_age_hours |-> None,
     pacman_version |-> None]

\* UpgradeStats::default()
DefaultUpgradeStats ==
    [download_size_mb |-> None,
     installed_size_mb |-> None,
     net_upgrade_size_mb |-> None,
     package_count |-> 0]

\* the result a call evaluates to, or a panic that unwinds the caller
Returned(v) == [panic |-> FALSE, val |-> v]

Panicked == [panic |-> TRUE, val |-> None]

\* get_installed_count: Command::output().unwrap(), then lines().count()
get_installed_count(env) ==
    IF env.spawn_ok THEN Returned(env.lines) ELSE Panicked

\* the `for line in contents.lines()` loop of get_seconds_since_update;
\* st = [saw_upgrade_start, upgrade_start_timestamp, last_valid_timestamp]
RECURSIVE scan_log(_, _, _)
scan_log(lines, i, st) ==
    IF i > Len(lines) THEN st
    ELSE LET line == lines[i]
             s1 == IF line.start
                   THEN [st EXCEPT !.saw_upgrade_start = TRUE,
                                   !.upgrade_start_timestamp = Some(line.timestamp)]
                   ELSE st
             s2 == IF s1.saw_upgrade_start /\ line.completed
                   THEN [s1 EXCEPT !.last_valid_timestamp = s1.upgrade_start_timestamp,
                                   !.saw_upgrade_start = FALSE]
                   ELSE s1
         IN  scan_log(lines, i + 1, s2)

\* bug: the age of a timestamp in the future is returned as it is
max0_unclamped(x) == x

\* duration.num_seconds().max(0)
max0(x) == IF x < 0 THEN 0 ELSE x

get_seconds_since_update(env) ==
    IF ~env.readable THEN Panicked      \* .expect("Failed to read pacman.log")
    ELSE LET st == scan_log(env.lines, 1,
                            [saw_upgrade_start |-> FALSE,
                             upgrade_start_timestamp |-> None,
                             last_valid_timestamp |-> None])
             ts == st.last_valid_timestamp
         IN  IF IsSome(ts)
             THEN IF ts[1].valid
                  THEN Returned(Some(max0(ts[1].age)))
                  ELSE Panicked         \* &ts[..22] / parse_from_rfc3339().unwrap()
             ELSE Returned(None)

\* the `for pkg in alpm.trans_add()` loop of get_upgrade_sizes
RECURSIVE add_loop(_, _, _)
add_loop(adds, i, acc) ==
    IF i > Len(adds) THEN acc
    ELSE LET pkg == adds[i]
             new_size == pkg.isize
             old == localdb_pkg(pkg.name)
             delta == IF IsSome(old) THEN new_size - old[1] ELSE new_size
         IN  add_loop(adds, i + 1,
                [package_count |-> acc.package_count + 1,
                 total_download_size |-> acc.total_download_size + pkg.download_size,
                 total_installed_size |-> acc.total_installed_size + new_size,
                 net_upgrade_size |-> acc.net_upgrade_size + delta])

\* the `for pkg in alpm.trans_remove()` loop of get_upgrade_sizes
RECURSIVE remove_loop(_, _, _)
remove_loop(removes, i, net) ==
    IF i > Len(removes) THEN net
    ELSE remove_loop(removes, i + 1, net - removes[i].isize)

\* bug: only a small positive net size is reported as zero
normalize_net_positive_only(bytes) ==
    IF bytes >= 0 /\ bytes * 100 < MiB THEN 0 ELSE bytes

\* `if net_mib > -0.01 && net_mib < 0.01 { net_mib = 0.0 }` on a value held
\* as bytes: |bytes| / 1048576 < 0.01  iff  |bytes| * 100 < 1048576
normalize_net(bytes) ==
    IF bytes * 100 > -MiB /\ bytes * 100 < MiB THEN 0 ELSE bytes

\* bug: a failed trans_prepare returns the sizes accumulated so far
get_upgrade_sizes_partial(env) ==
    IF env.fail = "trans_prepare"
    THEN [DefaultUpgradeStats EXCEPT !.download_size_mb = Some(0)]
    ELSE IF env.fail # "none" THEN DefaultUpgradeStats
    ELSE LET acc == add_loop(env.adds, 1,
                        [package_count |-> 0, total_download_size |-> 0,
                         total_installed_size |-> 0, net_upgrade_size |-> 0])
             net == remove_loop(env.removes, 1, acc.net_upgrade_size)
         IN  [download_size_mb |-> Some(acc.total_download_size),
              installed_size_mb |-> Some(acc.total_installed_size),
              net_upgrade_size_mb |-> Some(normalize_net(net)),
              package_count |-> acc.package_count]

get_upgrade_sizes(env) ==
    IF env.fail # "none" THEN DefaultUpgradeStats     \* `return fail`
    ELSE LET acc == add_loop(env.adds, 1,
                        [package_count |-> 0, total_download_size |-> 0,
                         total_installed_size |-> 0, net_upgrade_size |-> 0])
             net == remove_loop(env.removes, 1, acc.net_upgrade_size)
         IN  [download_size_mb |-> Some(acc.total_download_size),
              installed_size_mb |-> Some(acc.total_installed_size),
              net_upgrade_size_mb |-> Some(normalize_net(net)),
              package_count |-> acc.package_count]

\* the `for pkg in localdb.pkgs()` loop of get_orphaned_packages
RECURSIVE orphan_loop(_, _, _)
orphan_loop(pkgs, i, acc) ==
    IF i > Len(pkgs) THEN acc
    ELSE LET pkg == pkgs[i]
             orphan == pkg.reason = "Depend"
                       /\ pkg.required_by = 0 /\ pkg.optional_for = 0
         IN  orphan_loop(pkgs, i + 1,
                IF orphan
                THEN [count |-> acc.count + 1, total_size |-> acc.total_size + pkg.isize]
                ELSE acc)

\* returns the pair (Option<u32>, Option<f64>)
get_orphaned_packages(env) ==
    IF ~env.alpm_ok THEN <<None, None>>
    ELSE LET acc == orphan_loop(env.pkgs, 1, [count |-> 0, total_size |-> 0])
         IN  <<Some(acc.count), Some(acc.total_size)>>

\* filter_map(ok) . filter_map(metadata.ok) . filter(is_file) . map(len) . sum
RECURSIVE cache_sum(_, _)
cache_sum(entries, i) ==
    IF i > Len(entries) THEN 0
    ELSE (IF entries[i].ok /\ entries[i].is_file THEN entries[i].len ELSE 0)
         + cache_sum(entries, i + 1)

get_cache_size(env) ==
    IF env.readable THEN Some(cache_sum(env.entries, 1)) ELSE None

\* first line starting with "Server = ", cut at "/$repo"
RECURSIVE first_server(_, _)
first_server(lines, i) ==
    IF i > Len(lines) THEN None
    ELSE IF lines[i].server THEN Some(lines[i].base)
    ELSE first_server(lines, i + 1)

get_mirror_url(env) ==
    IF env.readable THEN first_server(env.lines, 1) ELSE None

\* first line containing both "Pacman v" and "libalpm v"
RECURSIVE first_version(_, _)
first_version(lines, i) ==
    IF i > Len(lines) THEN None
    ELSE IF lines[i].pacman_v /\ lines[i].libalpm_v THEN Some(lines[i].text)
    ELSE first_version(lines, i + 1)

get_pacman_version(env) ==
    IF env.spawn_ok THEN first_version(env.lines, 1) ELSE None

\* check_mirror_sync: every `.ok()?` and the status check return None; the
\* age in hours (held as its numerator in seconds) is clamped at 0
check_mirror_sync(env) ==
    IF env.fail = "panic" THEN Panicked
    ELSE IF env.fail # "none" THEN Returned(None)
    ELSE Returned(Some(max0(env.age_seconds)))

----------------------------------------------------------------------------
(* Strings: sequences of one-character strings.  ESC stands for the        *)
(* character 0x1B; "C3" and "A9" are the two bytes of a non-ASCII          *)
(* character, and REPLACEMENT is U+FFFD.                                   *)

ESC == "ESC"

REPLACEMENT == "U+FFFD"

EACUTE == "U+00E9"

\* char::is_whitespace, on the characters of the model
is_whitespace(c) == c \in {" ", "\t", "\n", "\r"}

\* String::from_utf8_lossy on a chunk of bytes: a complete two-byte
\* sequence decodes to its character, a lead byte without its continuation
\* byte and a stray continuation byte decode to U+FFFD
RECURSIVE from_utf8_lossy(_, _)
from_utf8_lossy(bytes, i) ==
    IF i > Len(bytes) THEN <<>>
    ELSE IF bytes[i] = "C3"
         THEN IF i < Len(bytes) /\ bytes[i + 1] = "A9"
              THEN <<EACUTE>> \o from_utf8_lossy(bytes, i + 2)
              ELSE <<REPLACEMENT>> \o from_utf8_lossy(bytes, i + 1)
    ELSE IF bytes[i] = "A9"
         THEN <<REPLACEMENT>> \o from_utf8_lossy(bytes, i + 1)
    ELSE <<bytes[i]>> \o from_utf8_lossy(bytes, i + 1)

\* util::strip_ansi, src/src/util.rs:46-61
RECURSIVE strip_ansi_loop(_, _, _, _)
strip_ansi_loop(s, i, in_escape, result) ==
    IF i > Len(s) THEN result
    ELSE LET c == s[i]
         IN  IF c = ESC THEN strip_ansi_loop(s, i + 1, TRUE, result)
             ELSE IF in_escape
                  THEN strip_ansi_loop(s, i + 1, c # "m", result)
             ELSE strip_ansi_loop(s, i + 1, FALSE, Append(result, c))

\* bug: any letter ends an escape sequence
RECURSIVE strip_ansi_loop_any_letter(_, _, _, _)
strip_ansi_loop_any_letter(s, i, in_escape, result) ==
    IF i > Len(s) THEN result
    ELSE LET c == s[i]
         IN  IF c = ESC THEN strip_ansi_loop_any_letter(s, i + 1, TRUE, result)
             ELSE IF in_escape
                  THEN strip_ansi_loop_any_letter(s, i + 1, c \notin {"m", "a"}, result)
             ELSE strip_ansi_loop_any_letter(s, i + 1, FALSE, Append(result, c))

strip_ansi_any_letter(s) == strip_ansi_loop_any_letter(s, 1, FALSE, <<>>)

\* bug: the scan starts inside an escape sequence
strip_ansi_in_escape(s) == strip_ansi_loop(s, 1, TRUE, <<>>)

strip_ansi(s) == strip_ansi_loop(s, 1, FALSE, <<>>)

\* str::trim_start / str::trim_end / str::trim
RECURSIVE trim_start(_)
trim_start(s) ==
    IF s # <<>> /\ is_whitespace(Head(s)) THEN trim_start(Tail(s)) ELSE s

RECURSIVE trim_end(_)
trim_end(s) ==
    IF s # <<>> /\ is_whitespace(s[Len(s)])
    THEN trim_end(SubSeq(s, 1, Len(s) - 1)) ELSE s

trim(s) == trim_end(trim_start(s))

\* str::starts_with / str::ends_with / str::contains on a literal pattern
starts_with(s, p) == Len(s) >= Len(p) /\ SubSeq(s, 1, Len(p)) = p

ends_with(s, p) == Len(s) >= Len(p) /\ SubSeq(s, Len(s) - Len(p) + 1, Len(s)) = p

str_contains(s, p) ==
    \E i \in 1..(Len(s) - Len(p) + 1) : SubSeq(s, i, i + Len(p) - 1) = p

\* str::split_whitespace().collect(): the maximal runs of non-whitespace
RECURSIVE split_whitespace_loop(_, _, _, _)
split_whitespace_loop(s, i, cur, parts) ==
    IF i > Len(s)
    THEN IF cur = <<>> THEN parts ELSE Append(parts, cur)
    ELSE IF is_whitespace(s[i])
         THEN split_whitespace_loop(s, i + 1, <<>>,
                  IF cur = <<>> THEN parts ELSE Append(parts, cur))
    ELSE split_whitespace_loop(s, i + 1, Append(cur, s[i]), parts)

split_whitespace(s) == split_whitespace_loop(s, 1, <<>>, <<>>)

\* str::strip_suffix('%')
strip_suffix_pct(s) ==
    IF s # <<>> /\ s[Len(s)] = "%" THEN Some(SubSeq(s, 1, Len(s) - 1)) ELSE None

Digits == {"0", "1", "2", "3", "4", "5", "6", "7", "8", "9"}

digit_value(c) ==
    CASE c = "0" -> 0 [] c = "1" -> 1 [] c = "2" -> 2 [] c = "3" -> 3
      [] c = "4" -> 4 [] c = "5" -> 5 [] c = "6" -> 6 [] c = "7" -> 7
      [] c = "8" -> 8 [] c = "9" -> 9

RECURSIVE decimal_value(_, _, _)
decimal_value(s, i, acc) ==
    IF i > Len(s) THEN acc ELSE decimal_value(s, i + 1, acc * 10 + digit_value(s[i]))

\* str::parse::<u8>(): an optional '+', then one or more decimal digits
\* whose value fits in 8 bits; Err is modelled as None
parse_u8(s) ==
    LET digits == IF s # <<>> /\ Head(s) = "+" THEN Tail(s) ELSE s
    IN  IF digits = <<>> \/ \E i \in 1..Len(digits) : digits[i] \notin Digits
        THEN None
        ELSE LET v == decimal_value(digits, 1, 0)
             IN  IF v > 255 THEN None ELSE Some(v)

STR_is_up_to_date == <<"i", "s", " ", "u", "p", " ", "t", "o", " ", "d", "a", "t", "e">>

STR_core == <<"c", "o", "r", "e">>

STR_extra == <<"e", "x", "t", "r", "a">>

STR_multilib == <<"m", "u", "l", "t", "i", "l", "i", "b">>

----------------------------------------------------------------------------
(* SyncProgress, src/src/pacman.rs:38-113 *)

\* enum DbSyncState
Syncing(pct) == <<"Syncing", pct>>

Complete == <<"Complete">>

\* SyncProgress::new()
SyncProgress_new == [core |-> Syncing(0), extra |-> Syncing(0), multilib |-> Syncing(0)]

\* bug: a slot that is Complete is never overwritten by a percentage
update_from_percent_monotonic(self, trimmed) ==
    LET parts == split_whitespace(trimmed)
    IN  IF Len(parts) >= 2
        THEN LET db_name == parts[1]
                 last == parts[Len(parts)]
                 pct_str == strip_suffix_pct(last)
                 pct == IF IsSome(pct_str) THEN parse_u8(pct_str[1]) ELSE None
             IN  IF IsSome(pct)
                 THEN LET state == IF pct[1] >= 100 THEN Complete ELSE Syncing(pct[1])
                          keep(old) == IF old = Complete THEN old ELSE state
                      IN  CASE db_name = STR_core     -> [self EXCEPT !.core = keep(@)]
                            [] db_name = STR_extra    -> [self EXCEPT !.extra = keep(@)]
                            [] db_name = STR_multilib -> [self EXCEPT !.multilib = keep(@)]
                            [] OTHER                  -> self
                 ELSE self
        ELSE self

\* bug: a percentage of 100 or more completes every slot
update_from_percent_completes_all(self, trimmed) ==
    LET parts == split_whitespace(trimmed)
    IN  IF Len(parts) >= 2
        THEN LET db_name == parts[1]
                 last == parts[Len(parts)]
                 pct_str == strip_suffix_pct(last)
                 pct == IF IsSome(pct_str) THEN parse_u8(pct_str[1]) ELSE None
             IN  IF IsSome(pct)
                 THEN IF pct[1] >= 100
                      THEN IF db_name \in {STR_core, STR_extra, STR_multilib}
                           THEN [core |-> Complete, extra |-> Complete, multilib |-> Complete]
                           ELSE self
                      ELSE CASE db_name = STR_core     -> [self EXCEPT !.core = Syncing(pct[1])]
                             [] db_name = STR_extra    -> [self EXCEPT !.extra = Syncing(pct[1])]
                             [] db_name = STR_multilib -> [self EXCEPT !.multilib = Syncing(pct[1])]
                             [] OTHER                  -> self
                 ELSE self
        ELSE self

\* lines 90-111: the name-and-percentage rule
update_from_percent(self, trimmed) ==
    LET parts == split_whitespace(trimmed)
    IN  IF Len(parts) >= 2
        THEN LET db_name == parts[1]
                 last == parts[Len(parts)]
                 pct_str == strip_suffix_pct(last)
                 pct == IF IsSome(pct_str) THEN parse_u8(pct_str[1]) ELSE None
             IN  IF IsSome(pct)
                 THEN LET state == IF pct[1] >= 100 THEN Complete ELSE Syncing(pct[1])
                      IN  CASE db_name = STR_core     -> [self EXCEPT !.core = state]
                            [] db_name = STR_extra    -> [self EXCEPT !.extra = state]
                            [] db_name = STR_multilib -> [self EXCEPT !.multilib = state]
                            [] OTHER                  -> self
                 ELSE self
        ELSE self

\* bug: the "is up to date" rule is missing
update_from_line_percent_only(self, line) ==
    update_from_percent(self, trim(strip_ansi(line)))

\* SyncProgress::update_from_line, lines 75-112
update_from_line(self, line) ==
    LET clean == strip_ansi(line)
        trimmed == trim(clean)
    IN  IF str_contains(trimmed, STR_is_up_to_date)
        THEN IF starts_with(trimmed, STR_core) THEN [self EXCEPT !.core = Complete]
             ELSE IF starts_with(trimmed, STR_extra) THEN [self EXCEPT !.extra = Complete]
             ELSE IF starts_with(trimmed, STR_multilib)
                  THEN [self EXCEPT !.multilib = Complete]
             ELSE self
        ELSE update_from_percent(self, trimmed)

----------------------------------------------------------------------------
(* get_stats, src/src/pacman.rs:562-668 *)

\* no database sync is in progress
SyncIdle ==
    /\ sync_pc = "idle"
    /\ progress = SyncProgress_new
    /\ line_buffer = <<>>
    /\ output = <<>>
    /\ written = 0
    /\ consumed = 0
    /\ proc_alive = FALSE
    /\ exit_cause = "none"
    /\ at_exit = SyncProgress_new
    /\ read_result = "none"
    /\ is_root = FALSE

\* no run_pacman_pty call is in progress
PtyIdle ==
    /\ pty_pc = "idle"
    /\ filter = FALSE
    /\ term = <<>>
    /\ chunk_rest = <<>>
    /\ seen = <<>>

\* neither upgrade_system nor sync_databases is in progress
SpeedIdle ==
    /\ st_pc = "idle"
    /\ tw_pc = "none"
    /\ progress_q = <<>>
    /\ progress_tx = FALSE
    /\ speed_q = <<>>
    /\ speed_tx = FALSE
    /\ body_len = 0
    /\ total_size = 0
    /\ downloaded = 0
    /\ tw_speed = <<>>
    /\ pb_position = 0
    /\ spinner = 0
    /\ speed = "none"

UpIdle ==
    /\ up_pc = "idle"
    /\ text_mode = FALSE
    /\ sync_first = FALSE
    /\ steps = <<>>
    /\ SpeedIdle

\* no pure function is under check
PureIdle ==
    /\ arg = [fn |-> "none"]
    /\ ret = <<>>

\* no get_stats call is in progress
StatsIdle ==
    /\ requested = <<>>
    /\ pc = "idle"
    /\ stats = DefaultStats
    /\ sync_handle = FALSE
    /\ worker_pc = "none"
    /\ worker_url = None
    /\ worker_result = None
    /\ calls = <<>>

\* default_stats(): every identifier once, in display order
default_stats ==
    <<"Installed", "Upgradable", "LastUpdate", "DownloadSize", "InstalledSize",
      "NetUpgradeSize", "OrphanedPackages", "CacheSize", "MirrorUrl",
      "MirrorHealth">>

RECURSIVE Filter(_, _, _)
Filter(seq, i, S) ==
    IF i > Len(seq) THEN <<>>
    ELSE (IF seq[i] \in S THEN <<seq[i]>> ELSE <<>>) \o Filter(seq, i + 1, S)

\* the requests get_stats is called with: the display-order lists that
\* leave out at most MaxMissing identifiers, and every list of at most
\* MaxReqLen identifiers in any order, repetitions included
Requests ==
    {Filter(default_stats, 1, StatId \ M) :
        M \in {X \in SUBSET StatId : Cardinality(X) <= MaxMissing}}
    \cup UNION {[1..k -> StatId] : k \in 0..MaxReqLen}

InitStats ==
    /\ requested \in Requests
    /\ pc = "upgrade"
    /\ stats = DefaultStats
    /\ sync_handle = FALSE
    /\ worker_pc = "none"
    /\ worker_url = None
    /\ worker_result = None
    /\ calls = <<>>
    /\ SyncIdle
    /\ PtyIdle
    /\ UpIdle
    /\ PureIdle

\* lines 570-582
StepUpgrade ==
    /\ pc = "upgrade"
    /\ pc' = "orphan"
    /\ IF needs_upgrade_stats(requested)
       THEN \E env \in UpgradeEnvs :
              LET upgrade_stats == get_upgrade_sizes(env)
              IN  /\ stats' = [stats EXCEPT
                        !.total_upgradable = upgrade_stats.package_count,
                        !.download_size_mb = upgrade_stats.download_size_mb,
                        !.total_installed_size_mb = upgrade_stats.installed_size_mb,
                        !.net_upgrade_size_mb = upgrade_stats.net_upgrade_size_mb]
                  /\ calls' = Append(calls, "get_upgrade_sizes")
       ELSE UNCHANGED <<stats, calls>>
    /\ UNCHANGED <<requested, sync_handle, worker_pc, worker_url, worker_result, sync_vars, rest_vars>>

\* lines 584-594
StepOrphan ==
    /\ pc = "orphan"
    /\ pc' = "mirror"
    /\ IF needs_orphan_stats(requested)
       THEN \E env \in OrphanEnvs :
              LET r == get_orphaned_packages(env)
              IN  /\ stats' = [stats EXCEPT !.orphaned_packages = r[1],
                                            !.orphaned_size_mb = r[2]]
                  /\ calls' = Append(calls, "get_orphaned_packages")
       ELSE UNCHANGED <<stats, calls>>
    /\ UNCHANGED <<requested, sync_handle, worker_pc, worker_url, worker_result, sync_vars, rest_vars>>

\* bug: the worker is spawned, on a clone of stats.mirror_url, before the
\* mirror URL is resolved
StepMirror_spawn_before_url ==
    /\ pc = "mirror"
    /\ pc' = "installed"
    /\ IF needs_mirror_url(requested)
       THEN \E env \in MirrorlistEnvs :
              LET url == get_mirror_url(env)
              IN  /\ stats' = [stats EXCEPT !.mirror_url = url]
                  /\ calls' = Append(calls, "get_mirror_url")
                  /\ IF needs_mirror_health(requested)
                     THEN /\ sync_handle' = TRUE
                          /\ worker_pc' = "spawned"
                          /\ worker_url' = stats.mirror_url
                     ELSE UNCHANGED <<sync_handle, worker_pc, worker_url>>
       ELSE UNCHANGED <<stats, calls, sync_handle, worker_pc, worker_url>>
    /\ UNCHANGED <<requested, worker_result, sync_vars, rest_vars>>

\* lines 596-624: resolve the mirror URL and, when mirror health is
\* requested, spawn the worker on a clone of the resolved URL
StepMirror ==
    /\ pc = "mirror"
    /\ pc' = "installed"
    /\ IF needs_mirror_url(requested)
       THEN \E env \in MirrorlistEnvs :
              LET url == get_mirror_url(env)
              IN  /\ stats' = [stats EXCEPT !.mirror_url = url]
                  /\ calls' = Append(calls, "get_mirror_url")
                  /\ IF needs_mirror_health(requested)
                     THEN /\ sync_handle' = TRUE
                          /\ worker_pc' = "spawned"
                          /\ worker_url' = url
                     ELSE UNCHANGED <<sync_handle, worker_pc, worker_url>>
       ELSE UNCHANGED <<stats, calls, sync_handle, worker_pc, worker_url>>
    /\ UNCHANGED <<requested, worker_result, sync_vars, rest_vars>>

\* lines 626-632; the unwrap() in get_installed_count unwinds get_stats
StepInstalled ==
    /\ pc = "installed"
    /\ IF contains(requested, "Installed")
       THEN \E env \in InstalledEnvs :
              LET r == get_installed_count(env)
              IN  /\ calls' = Append(calls, "get_installed_count")
                  /\ IF r.panic
                     THEN pc' = "panicked" /\ UNCHANGED stats
                     ELSE /\ pc' = "last_update"
                          /\ stats' = [stats EXCEPT !.total_installed = r.val]
       ELSE pc' = "last_update" /\ UNCHANGED <<stats, calls>>
    /\ UNCHANGED <<requested, sync_handle, worker_pc, worker_url, worker_result, sync_vars, rest_vars>>

\* lines 634-640; expect()/unwrap() in get_seconds_since_update unwind
StepLastUpdate ==
    /\ pc = "last_update"
    /\ IF contains(requested, "LastUpdate")
       THEN \E env \in LogEnvs :
              LET r == get_seconds_since_update(env)
              IN  /\ calls' = Append(calls, "get_seconds_since_update")
                  /\ IF r.panic
                     THEN pc' = "panicked" /\ UNCHANGED stats
                     ELSE /\ pc' = "cache"
                          /\ stats' = [stats EXCEPT !.days_since_last_update = r.val]
       ELSE pc' = "cache" /\ UNCHANGED <<stats, calls>>
    /\ UNCHANGED <<requested, sync_handle, worker_pc, worker_url, worker_result, sync_vars, rest_vars>>

\* lines 642-648
StepCache ==
    /\ pc = "cache"
    /\ pc' = "version"
    /\ IF contains(requested, "CacheSize")
       THEN \E env \in CacheEnvs :
              /\ stats' = [stats EXCEPT !.cache_size_mb = get_cache_size(env)]
              /\ calls' = Append(calls, "get_cache_size")
       ELSE UNCHANGED <<stats, calls>>
    /\ UNCHANGED <<requested, sync_handle, worker_pc, worker_url, worker_result, sync_vars, rest_vars>>

\* lines 650-654
StepVersion ==
    /\ pc = "version"
    /\ pc' = "join"
    /\ \E env \in VersionEnvs :
         stats' = [stats EXCEPT !.pacman_version = get_pacman_version(env)]
    /\ calls' = Append(calls, "get_pacman_version")
    /\ UNCHANGED <<requested, sync_handle, worker_pc, worker_url, worker_result, sync_vars, rest_vars>>

\* bug: the result is taken without waiting for the worker
worker_terminated_nowait(wpc) == TRUE

\* JoinHandle::join returns once the spawned thread has terminated
worker_terminated(wpc) == wpc \in {"finished", "panicked"}

\* handle.join().ok().flatten(): Err (the worker panicked) becomes None
join_result(wpc, result) == IF wpc = "finished" THEN result ELSE None

\* bug: the worker checks the mirror whether or not a URL was resolved
closure_calls_check_always(mirror_url_clone) == TRUE

\* mirror_url_clone.as_ref().and_then(|url| check_mirror_sync(url)) calls
\* check_mirror_sync only on Some(url)
closure_calls_check(mirror_url_clone) == IsSome(mirror_url_clone)

\* lines 656-667: join() blocks until the worker has terminated
StepJoin ==
    /\ pc = "join"
    /\ IF sync_handle
       THEN /\ worker_terminated(worker_pc)
            /\ stats' = [stats EXCEPT
                           !.mirror_sync_age_hours = join_result(worker_pc, worker_result)]
       ELSE UNCHANGED stats
    /\ pc' = "done"
    /\ UNCHANGED <<requested, sync_handle, worker_pc, worker_url, worker_result, calls,
                   sync_vars, rest_vars>>

\* lines 606-610: the spawned closure starts running
WorkerStart ==
    /\ worker_pc = "spawned"
    /\ IF closure_calls_check(worker_url)
       THEN /\ worker_pc' = "checking"
            /\ calls' = Append(calls, "check_mirror_sync")
            /\ UNCHANGED worker_result
       ELSE /\ worker_pc' = "finished"
            /\ worker_result' = None
            /\ UNCHANGED calls
    /\ UNCHANGED <<requested, pc, stats, sync_handle, worker_url, sync_vars, rest_vars>>

\* bug: the worker stores its result in the caller's stats
WorkerFinish_writes_stats ==
    /\ worker_pc = "checking"
    /\ \E env \in MirrorSyncEnvs :
         LET r == check_mirror_sync(env)
         IN  IF r.panic
             THEN worker_pc' = "panicked" /\ UNCHANGED <<worker_result, stats>>
             ELSE /\ worker_pc' = "finished"
                  /\ worker_result' = r.val
                  /\ stats' = [stats EXCEPT !.mirror_sync_age_hours = r.val]
    /\ UNCHANGED <<requested, pc, sync_handle, worker_url, calls, sync_vars, rest_vars>>

\* check_mirror_sync returns (or panics) and the closure ends
WorkerFinish ==
    /\ worker_pc = "checking"
    /\ \E env \in MirrorSyncEnvs :
         LET r == check_mirror_sync(env)
         IN  IF r.panic
             THEN worker_pc' = "panicked" /\ UNCHANGED worker_result
             ELSE worker_pc' = "finished" /\ worker_result' = r.val
    /\ UNCHANGED <<requested, pc, stats, sync_handle, worker_url, calls, sync_vars, rest_vars>>

NextStats ==
    \/ StepUpgrade
    \/ StepOrphan
    \/ StepMirror
    \/ StepInstalled
    \/ StepLastUpdate
    \/ StepCache
    \/ StepVersion
    \/ StepJoin
    \/ WorkerStart
    \/ WorkerFinish

SpecStats == InitStats /\ [][NextStats]_vars

----------------------------------------------------------------------------
(* run_pacman_sync, src/src/pacman.rs:451-526 *)

\* `let mut buf = [0u8; 1024]`
BufSize == 1024

\* what the subprocess can emit before it exits
SyncOutputs ==
    {<<"c", "o", "r", "e", " ", "4", "5", "%", "\n", "c", "o", "r", "e", " ", "i", "s", " ", "u", "p", " ", "t", "o", " ", "d", "a", "t", "e", "\n">>,
     <<"e", "x", "t", "r", "a", " ", "5", "7", "%", "\r", "e", "x", "t", "r", "a", " ", "1", "0", "0", "%", "\r", "\n">>,
     <<ESC, "[", "1", "m", "m", "u", "l", "t", "i", "l", "i", "b", " ", "9", "9", "%", ESC, "[", "0", "m">>,
     <<" ", "e", "x", "t", "r", "a", " ", "i", "s", " ", "u", "p", " ", "t", "o", " ", "d", "a", "t", "e", "\n", "c", "o", "m", "m", "u", "n", "i", "t", "y", " ", "3", "0", "%", "\n">>,
     <<"c", "a", "f", "C3", "A9", " ", "7", "%", "\n", "m", "u", "l", "t", "i", "l", "i", "b", " ", "+", "1", "0", "0", "%">>}

InitSync ==
    /\ StatsIdle
    /\ PtyIdle
    /\ UpIdle
    /\ PureIdle
    /\ read_result = "none"
    /\ is_root \in BOOLEAN
    /\ sync_pc = "start"
    /\ progress = SyncProgress_new
    /\ line_buffer = <<>>
    /\ output \in SyncOutputs
    /\ written = 0
    /\ consumed = 0
    /\ proc_alive = FALSE
    /\ exit_cause = "none"
    /\ at_exit = SyncProgress_new

\* bug: only the slots that made progress are completed
force_complete_started(self) ==
    [core |-> IF self.core = Syncing(0) THEN self.core ELSE Complete,
     extra |-> IF self.extra = Syncing(0) THEN self.extra ELSE Complete,
     multilib |-> IF self.multilib = Syncing(0) THEN self.multilib ELSE Complete]

\* lines 517-519
force_complete(self) ==
    [self EXCEPT !.core = Complete, !.extra = Complete, !.multilib = Complete]

\* one thing a driver did: println!, print!("\r{}"), print!, the read of
\* a line of standard input, session.send_line, progress.update_from_line
Event(op, text) == [op |-> op, text |-> text]

\* bug: a '\r' feeds the buffer to the tracker but does not clear it
RECURSIVE sync_chunk_loop_cr_keeps_buffer(_, _, _)
sync_chunk_loop_cr_keeps_buffer(chunk, i, st) ==
    IF i > Len(chunk) THEN st
    ELSE LET ch == chunk[i]
         IN  IF ch = "\n" \/ ch = "\r"
             THEN sync_chunk_loop_cr_keeps_buffer(chunk, i + 1,
                    [line_buffer |-> IF ch = "\r" THEN st.line_buffer ELSE <<>>,
                     progress |-> IF st.line_buffer # <<>>
                                  THEN update_from_line(st.progress, st.line_buffer)
                                  ELSE st.progress,
                     term |-> IF st.line_buffer # <<>>
                              THEN Append(st.term, Event("update_from_line", st.line_buffer))
                              ELSE st.term])
             ELSE sync_chunk_loop_cr_keeps_buffer(chunk, i + 1,
                    [st EXCEPT !.line_buffer = Append(st.line_buffer, ch)])

\* lines 496-506: the `for ch in chunk.chars()` loop;
\* st = [line_buffer, progress, term]
RECURSIVE sync_chunk_loop(_, _, _)
sync_chunk_loop(chunk, i, st) ==
    IF i > Len(chunk) THEN st
    ELSE LET ch == chunk[i]
         IN  IF ch = "\n" \/ ch = "\r"
             THEN sync_chunk_loop(chunk, i + 1,
                    [line_buffer |-> <<>>,
                     progress |-> IF st.line_buffer # <<>>
                                  THEN update_from_line(st.progress, st.line_buffer)
                                  ELSE st.progress,
                     term |-> IF st.line_buffer # <<>>
                              THEN Append(st.term, Event("update_from_line", st.line_buffer))
                              ELSE st.term])
             ELSE sync_chunk_loop(chunk, i + 1,
                    [st EXCEPT !.line_buffer = Append(st.line_buffer, ch)])

\* std::io::ErrorKind of a failed try_read
ErrorKinds == {"WouldBlock", "Interrupted", "Other"}

\* bug: an interrupted read is taken for a fatal one
is_transient_would_block_only(kind) == kind = "WouldBlock"

\* `WouldBlock | Interrupted => sleep(10ms)`, `_ => break`
is_transient(kind) == kind \in {"WouldBlock", "Interrupted"}

\* lines 452-475: root check, spawn, tracker and line buffer set up
SyncStart ==
    /\ sync_pc = "start"
    /\ IF ~is_root THEN sync_pc' = "err_root" /\ UNCHANGED proc_alive
       ELSE \E spawn_ok \in BOOLEAN :
              IF ~spawn_ok THEN sync_pc' = "err_spawn" /\ UNCHANGED proc_alive
              ELSE sync_pc' = "check_alive" /\ proc_alive' = TRUE
    /\ progress' = SyncProgress_new
    /\ line_buffer' = <<>>
    /\ UNCHANGED <<output, written, consumed, exit_cause, at_exit, read_result, is_root,
                   stats_vars, rest_vars>>

\* the subprocess writes some more of its output to the PTY
ProcWrite ==
    /\ proc_alive
    /\ \E n \in (written + 1)..Len(output) : written' = n
    /\ UNCHANGED <<sync_pc, progress, line_buffer, output, consumed, proc_alive,
                   exit_cause, at_exit, read_result, is_root, stats_vars, rest_vars>>

\* the subprocess exits once it has written all of its output
ProcExit ==
    /\ proc_alive
    /\ written = Len(output)
    /\ proc_alive' = FALSE
    /\ UNCHANGED <<sync_pc, progress, line_buffer, output, written, consumed,
                   exit_cause, at_exit, read_result, is_root, stats_vars, rest_vars>>

\* bug: an error of the liveness check is ignored and the loop goes on
SyncCheckAlive_ignores_err ==
    /\ sync_pc = "check_alive"
    /\ \E alive \in {"Ok(true)", "Ok(false)", "Err"} :
         /\ alive = "Ok(true)" => proc_alive
         /\ alive = "Ok(false)" => ~proc_alive
         /\ CASE alive = "Ok(true)" ->
                   /\ sync_pc' = "read"
                   /\ UNCHANGED <<progress, exit_cause, at_exit, term>>
              [] alive = "Ok(false)" ->
                   LET p == IF line_buffer # <<>>
                            THEN update_from_line(progress, line_buffer)
                            ELSE progress
                   IN  /\ progress' = p
                       /\ term' = IF line_buffer # <<>>
                                  THEN Append(term, Event("update_from_line", line_buffer))
                                  ELSE term
                       /\ at_exit' = p
                       /\ exit_cause' = "not_alive"
                       /\ sync_pc' = "exited"
              [] alive = "Err" ->
                   /\ sync_pc' = "read"
                   /\ UNCHANGED <<progress, exit_cause, at_exit, term>>
    /\ UNCHANGED <<line_buffer, output, written, consumed, proc_alive, read_result,
                   is_root, stats_vars, pty_pc, filter, chunk_rest, seen, up_vars,
                   pure_vars>>

\* lines 478-488: `match session.is_alive()`
SyncCheckAlive ==
    /\ sync_pc = "check_alive"
    /\ \E alive \in {"Ok(true)", "Ok(false)", "Err"} :
         /\ alive = "Ok(true)" => proc_alive
         /\ alive = "Ok(false)" => ~proc_alive
         /\ CASE alive = "Ok(true)" ->
                   /\ sync_pc' = "read"
                   /\ UNCHANGED <<progress, exit_cause, at_exit, term>>
              [] alive = "Ok(false)" ->
                   LET p == IF line_buffer # <<>>
                            THEN update_from_line(progress, line_buffer)
                            ELSE progress
                   IN  /\ progress' = p
                       /\ term' = IF line_buffer # <<>>
                                  THEN Append(term, Event("update_from_line", line_buffer))
                                  ELSE term
                       /\ at_exit' = p
                       /\ exit_cause' = "not_alive"
                       /\ sync_pc' = "exited"
              [] alive = "Err" ->
                   /\ at_exit' = progress
                   /\ exit_cause' = "alive_err"
                   /\ sync_pc' = "exited"
                   /\ UNCHANGED <<progress, term>>
    /\ UNCHANGED <<line_buffer, output, written, consumed, proc_alive, read_result,
                   is_root, stats_vars, pty_pc, filter, chunk_rest, seen, up_vars,
                   pure_vars>>

\* lines 490-514: `match session.try_read(&mut buf)`
SyncRead ==
    /\ sync_pc = "read"
    /\ \/ \* Ok(0)
          /\ consumed = written
          /\ read_result' = "Ok(0)"
          /\ sync_pc' = "check_alive"
          /\ UNCHANGED <<progress, line_buffer, consumed, exit_cause, at_exit, term, seen>>
       \/ \* Ok(n): n bytes of what the PTY holds, at most the buffer size
          \E n \in 1..(written - consumed) :
            /\ n <= BufSize
            /\ LET chunk == from_utf8_lossy(SubSeq(output, consumed + 1, consumed + n), 1)
                   st == sync_chunk_loop(chunk, 1,
                            [line_buffer |-> line_buffer, progress |-> progress,
                             term |-> term])
               IN  /\ line_buffer' = st.line_buffer
                   /\ progress' = st.progress
                   /\ term' = st.term
                   /\ seen' = seen \o chunk
            /\ consumed' = consumed + n
            /\ read_result' = "Ok(n)"
            /\ sync_pc' = "check_alive"
            /\ UNCHANGED <<exit_cause, at_exit>>
       \/ \* Err(e): a transient kind retries, any other kind breaks the loop
          \E kind \in ErrorKinds :
            /\ read_result' = kind
            /\ IF is_transient(kind)
               THEN /\ sync_pc' = "check_alive"
                    /\ UNCHANGED <<exit_cause, at_exit>>
               ELSE /\ sync_pc' = "exited"
                    /\ exit_cause' = "read_err"
                    /\ at_exit' = progress
            /\ UNCHANGED <<progress, line_buffer, consumed, term, seen>>
    /\ UNCHANGED <<output, written, proc_alive, is_root, stats_vars, pty_pc, filter,
                   chunk_rest, up_vars, pure_vars>>

\* lines 517-525: every slot is forced to Complete and Ok(()) is returned
SyncFinish ==
    /\ sync_pc = "exited"
    /\ progress' = force_complete(progress)
    /\ sync_pc' = "done"
    /\ UNCHANGED <<line_buffer, output, written, consumed, proc_alive, exit_cause,
                   at_exit, read_result, is_root, stats_vars, rest_vars>>

NextSync ==
    \/ SyncStart
    \/ ProcWrite
    \/ ProcExit
    \/ SyncCheckAlive
    \/ SyncRead
    \/ SyncFinish

SpecSync == InitSync /\ [][NextSync]_vars

----------------------------------------------------------------------------
(* Properties of get_stats, checked under SpecStats *)

\* the identifiers the request contains
RequestedSet == {requested[i] : i \in 1..Len(requested)}

\* the probe was invoked during this call
Ran(probe) == \E i \in 1..Len(calls) : calls[i] = probe

\* the probe was invoked, and `earlier` was invoked before it
RanAfter(probe, earlier) ==
    \A i \in 1..Len(calls) :
        calls[i] = probe => \E j \in 1..(i - 1) : calls[j] = earlier

\* the probe that serves a stat kind
ProbeOf(kind) ==
    CASE kind = "Installed" -> "get_installed_count"
      [] kind \in {"Upgradable", "DownloadSize", "InstalledSize", "NetUpgradeSize"}
             -> "get_upgrade_sizes"
      [] kind = "LastUpdate" -> "get_seconds_since_update"
      [] kind = "OrphanedPackages" -> "get_orphaned_packages"
      [] kind = "CacheSize" -> "get_cache_size"
      [] kind = "MirrorUrl" -> "get_mirror_url"
      [] kind = "MirrorHealth" -> "check_mirror_sync"

\* the result fields a probe populates
FieldsOf(probe) ==
    CASE probe = "get_installed_count" -> {"total_installed"}
      [] probe = "get_upgrade_sizes" ->
             {"total_upgradable", "download_size_mb", "total_installed_size_mb",
              "net_upgrade_size_mb"}
      [] probe = "get_seconds_since_update" -> {"days_since_last_update"}
      [] probe = "get_orphaned_packages" -> {"orphaned_packages", "orphaned_size_mb"}
      [] probe = "get_cache_size" -> {"cache_size_mb"}
      [] probe = "get_mirror_url" -> {"mirror_url"}
      [] probe = "check_mirror_sync" -> {"mirror_sync_age_hours"}
      [] probe = "get_pacman_version" -> {"pacman_version"}

\* the probes serving a stat kind
GatedProbes == {ProbeOf(k) : k \in StatId}

\* dependency closure of the request: the probe of every requested kind,
\* and the mirror-URL probe as the prerequisite of the sync-age probe
Closure ==
    {ProbeOf(k) : k \in RequestedSet}
    \cup (IF "MirrorHealth" \in RequestedSet THEN {"get_mirror_url"} ELSE {})

\* the probe did not run and its fields hold their defaults
Untouched(probe) ==
    /\ ~Ran(probe)
    /\ \A f \in FieldsOf(probe) : stats[f] = DefaultStats[f]

\* C1 as stated: no probe outside the request's dependency closure runs and
\* no field of such a probe is populated, the version probe and
\* pacman_version included ("every other field")
C1_Original ==
    \A probe \in (GatedProbes \cup {"get_pacman_version"}) \ Closure : Untouched(probe)

\* C1 (amended): for every request, no probe serving a stat kind outside
\* the request's dependency closure runs and none of its fields is
\* populated; the version probe is not gated by the request
C1_OnlyClosurePopulated ==
    \A probe \in GatedProbes \ Closure : Untouched(probe)

C1_Witness ==
    /\ pc = "done"
    /\ requested = <<"Installed">>
    /\ calls = <<"get_installed_count", "get_pacman_version">>
    /\ stats.total_installed = 1
    /\ IsSome(stats.pacman_version)
    /\ \A probe \in GatedProbes \ {"get_installed_count"} : Untouched(probe)

\* C2: when get_stats returns no worker it started is still running, and
\* mirror_sync_age_hours is the worker's own outcome: its return value, or
\* absent when it panicked
C2_WorkerJoinedBeforeReturn ==
    pc = "done" =>
        /\ worker_pc \notin {"spawned", "checking"}
        /\ sync_handle =>
             /\ worker_pc = "finished" => stats.mirror_sync_age_hours = worker_result
             /\ worker_pc = "panicked" => stats.mirror_sync_age_hours = None
        /\ worker_pc # "none" => sync_handle

\* the worker's network check ran after every synchronous probe of the call
C2_Witness ==
    /\ pc = "done"
    /\ sync_handle
    /\ worker_pc = "finished"
    /\ stats.mirror_sync_age_hours = Some(7200)
    /\ Len(calls) >= 2
    /\ calls[Len(calls)] = "check_mirror_sync"
    /\ calls[Len(calls) - 1] = "get_pacman_version"

\* C3: the upgrade-transaction, orphan and mirror-URL probes run exactly
\* when the request asks for one of the kinds they serve
C3_ProbesRunIffRequested ==
    LET wantUpgrade == RequestedSet \cap {"Upgradable", "DownloadSize", "InstalledSize",
                                           "NetUpgradeSize"} # {}
        wantOrphan == "OrphanedPackages" \in RequestedSet
        wantUrl == RequestedSet \cap {"MirrorUrl", "MirrorHealth"} # {}
    IN  /\ Ran("get_upgrade_sizes") => wantUpgrade
        /\ Ran("get_orphaned_packages") => wantOrphan
        /\ Ran("get_mirror_url") => wantUrl
        /\ pc \notin {"upgrade"} => (wantUpgrade => Ran("get_upgrade_sizes"))
        /\ pc \notin {"upgrade", "orphan"} => (wantOrphan => Ran("get_orphaned_packages"))
        /\ pc \notin {"upgrade", "orphan", "mirror"} => (wantUrl => Ran("get_mirror_url"))

C3_Witness ==
    /\ pc = "done"
    /\ requested = <<"NetUpgradeSize", "MirrorHealth">>
    /\ Ran("get_upgrade_sizes")
    /\ Ran("get_mirror_url")
    /\ ~Ran("get_orphaned_packages")

\* C4 as stated: check_mirror_sync runs iff MirrorHealth is requested
C4_Original ==
    pc = "done" => (Ran("check_mirror_sync") <=> "MirrorHealth" \in RequestedSet)

\* C4 (amended): by the time get_stats returns, check_mirror_sync has run
\* iff MirrorHealth is requested and the mirror-URL probe resolved a URL;
\* whenever it runs, the mirror-URL probe has run earlier in the same call
C4_SyncCheckIffHealthAndUrl ==
    /\ Ran("check_mirror_sync") =>
         "MirrorHealth" \in RequestedSet /\ IsSome(stats.mirror_url)
    /\ RanAfter("check_mirror_sync", "get_mirror_url")
    /\ pc = "done" =>
         ("MirrorHealth" \in RequestedSet /\ IsSome(stats.mirror_url)
            => Ran("check_mirror_sync"))

C4_Witness ==
    /\ pc = "done"
    /\ requested = <<"MirrorHealth">>
    /\ calls = <<"get_mirror_url", "check_mirror_sync", "get_pacman_version">>

\* C5 as stated: no probe failure aborts the aggregation call
C5_NoProbeFailureAborts == pc # "panicked"

\* C6: download size, installed size and net size are all present or all
\* absent, and the package count is 0 when they are absent, both in every
\* result of get_upgrade_sizes and in the fields of the get_stats result
AllOrNothing(dl, inst, net, count) ==
    \/ IsSome(dl) /\ IsSome(inst) /\ IsSome(net)
    \/ dl = None /\ inst = None /\ net = None /\ count = 0

C6_SummaryAllOrNothing ==
    /\ \A env \in UpgradeEnvs :
         LET u == get_upgrade_sizes(env)
         IN  /\ AllOrNothing(u.download_size_mb, u.installed_size_mb,
                             u.net_upgrade_size_mb, u.package_count)
             /\ IsSome(u.download_size_mb) <=> env.fail = "none"
    /\ AllOrNothing(stats.download_size_mb, stats.total_installed_size_mb,
                    stats.net_upgrade_size_mb, stats.total_upgradable)

C6_Witness ==
    /\ pc = "done"
    /\ stats.total_upgradable = 2
    /\ stats.download_size_mb = Some(MiB + 100)
    /\ stats.total_installed_size_mb = Some(3 * MiB + 9000)
    /\ stats.net_upgrade_size_mb = Some(0)

\* C7: mirror_sync_age_hours is present only if mirror_url is present, and
\* check_mirror_sync is never called when URL resolution returned absent
C7_SyncAgeOnlyWithUrl ==
    /\ IsSome(stats.mirror_sync_age_hours) => IsSome(stats.mirror_url)
    /\ Ran("check_mirror_sync") => IsSome(stats.mirror_url)

\* mirror health requested, no URL resolved: the worker ends without a check
C7_Witness ==
    /\ pc = "done"
    /\ "MirrorHealth" \in RequestedSet
    /\ stats.mirror_url = None
    /\ worker_pc = "finished"
    /\ stats.mirror_sync_age_hours = None

\* C8 as stated: every call of get_stats, however it ends, has run the
\* version probe
C8_VersionProbeOnEveryCall ==
    pc \in {"done", "panicked"} => Ran("get_pacman_version")

----------------------------------------------------------------------------
(* Properties of run_pacman_sync, checked under SpecSync *)

AllComplete == [core |-> Complete, extra |-> Complete, multilib |-> Complete]

\* C9: however the loop was left, core, extra and multilib are all
\* Complete when run_pacman_sync returns Ok
C9_AllCompleteOnReturn ==
    sync_pc = "done" => progress = AllComplete

\* the liveness check failed while no slot had completed
C9_Witness ==
    /\ sync_pc = "done"
    /\ exit_cause = "alive_err"
    /\ at_exit.core = Syncing(45)
    /\ at_exit.extra = Syncing(0)
    /\ at_exit.multilib = Syncing(0)
    /\ progress = AllComplete

\* the subprocess of the scenario: "core 45%\n", "core is up to date\n", exit
ScenarioOutput == <<"c", "o", "r", "e", " ", "4", "5", "%", "\n", "c", "o", "r", "e", " ", "i", "s", " ", "u", "p", " ", "t", "o", " ", "d", "a", "t", "e", "\n">>

\* C10 as stated: the scenario ends with core Complete and extra and
\* multilib still Syncing(0)
C10_Original ==
    (sync_pc = "done" /\ output = ScenarioOutput /\ consumed = Len(output)) =>
        progress = [core |-> Complete, extra |-> Syncing(0), multilib |-> Syncing(0)]

\* C10 (amended): in the scenario, once both lines were read, the tracker
\* has core Complete and extra and multilib at Syncing(0) when the loop is
\* left, and the final tracker state has all three slots Complete
C10_ScenarioTracker ==
    (output = ScenarioOutput /\ consumed = Len(output)) =>
        /\ sync_pc \in {"exited", "done"} =>
             at_exit = [core |-> Complete, extra |-> Syncing(0), multilib |-> Syncing(0)]
        /\ sync_pc = "done" => progress = AllComplete

C10_Witness ==
    /\ sync_pc = "done"
    /\ output = ScenarioOutput
    /\ consumed = Len(output)
    /\ ~proc_alive
    /\ exit_cause = "not_alive"
    /\ at_exit = [core |-> Complete, extra |-> Syncing(0), multilib |-> Syncing(0)]
    /\ progress = AllComplete


----------------------------------------------------------------------------
(* SyncProgress::update_from_line as a function of the tracker and the line *)

\* the tracker states the function is applied to
SlotStates == {Syncing(0), Syncing(70), Complete}

TrackerStates == [core : SlotStates, extra : SlotStates, multilib : SlotStates]

\* what precedes the first token of a line
LineLeads == {<<>>, <<" ">>, <<ESC, "[", "1", "m">>}

\* what follows its last token
LineTrails == {<<>>, <<ESC, "[", "0", "m", " ">>}

\* first token: its text, the known name it equals and the known name it
\* starts with ("none" when there is none)
FirstToken(text, equals, prefix) == [text |-> text, equals |-> equals, prefix |-> prefix]

FirstTokens ==
    {FirstToken(<<"c", "o", "r", "e">>, "core", "core"),
     FirstToken(<<"e", "x", "t", "r", "a">>, "extra", "extra"),
     FirstToken(<<"m", "u", "l", "t", "i", "l", "i", "b">>, "multilib", "multilib"),
     FirstToken(<<"c", "o", "m", "m", "u", "n", "i", "t", "y">>, "none", "none"),
     FirstToken(<<"c", "o", "r", "e", "-", "t", "e", "s", "t", "i", "n", "g">>, "none", "core")}

\* the rest of the line: its text, whether it contains "is up to date",
\* and the value of its last token when that token is a percentage a u8
\* can hold (None otherwise)
LineRest(text, uptodate, pct) == [text |-> text, uptodate |-> uptodate, pct |-> pct]

LineRests ==
    {LineRest(<<>>, FALSE, None),
     LineRest(<<" ", "4", "5", "%">>, FALSE, Some(45)),
     LineRest(<<"\t", "9", "9", "%">>, FALSE, Some(99)),
     LineRest(<<" ", "1", "0", "0", "%">>, FALSE, Some(100)),
     LineRest(<<" ", "2", "5", "5", "%">>, FALSE, Some(255)),
     LineRest(<<" ", "2", "5", "6", "%">>, FALSE, None),
     LineRest(<<" ", "+", "7", "%">>, FALSE, Some(7)),
     LineRest(<<" ", "-", "7", "%">>, FALSE, None),
     LineRest(<<" ", "x", "%">>, FALSE, None),
     LineRest(<<" ", "%">>, FALSE, None),
     LineRest(<<" ", "4", "5">>, FALSE, None),
     LineRest(<<"4", "5", "%">>, FALSE, None),
     LineRest(<<" ", "1", ".", "2", " ", "M", "i", "B", " ", " ", "3", ".", "4", " ", "M", "i", "B", "/", "s", " ", "0", "0", ":", "0", "1", " ", "0", "%">>, FALSE, Some(0)),
     LineRest(<<" ", "i", "s", " ", "u", "p", " ", "t", "o", " ", "d", "a", "t", "e">>, TRUE, None),
     LineRest(<<" ", "i", "s", " ", "u", "p", " ", "t", "o", " ", "d", "a", "t", "e", " ", "4", "5", "%">>, TRUE, None)}

\* the text of the line
LineText(lead, first, rest, trail) == lead \o first.text \o rest.text \o trail

\* every group but the function under study is parked
OthersIdle ==
    /\ StatsIdle
    /\ SyncIdle
    /\ PtyIdle
    /\ UpIdle

InitTracker ==
    /\ OthersIdle
    /\ arg \in [fn : {"update_from_line"}, self : TrackerStates, lead : LineLeads,
                first : FirstTokens, rest : LineRests, trail : LineTrails]
    /\ ret = None

\* progress.update_from_line(&line)
ApplyUpdateFromLine ==
    /\ arg.fn = "update_from_line"
    /\ ret = None
    /\ ret' = Some(update_from_line(arg.self,
                                    LineText(arg.lead, arg.first, arg.rest, arg.trail)))
    /\ UNCHANGED <<arg, stats_vars, sync_vars, pty_vars, up_vars>>

NextTracker == ApplyUpdateFromLine

SpecTracker == InitTracker /\ [][NextTracker]_vars

\* the tracker with one slot overwritten
WithSlot(self, slot, state) ==
    CASE slot = "core" -> [self EXCEPT !.core = state]
      [] slot = "extra" -> [self EXCEPT !.extra = state]
      [] slot = "multilib" -> [self EXCEPT !.multilib = state]
      [] OTHER -> self

\* C11: rule (1), a line containing "is up to date" sets the slot whose
\* name it starts with to Complete and is never read as a percentage;
\* rule (2), otherwise a first token equal to a known name and a last token
\* N% set that slot to Syncing(N) for N < 100 and Complete for N >= 100,
\* whatever the slot held before; anything else changes nothing
C11_RulesInOrderOverwrite ==
    (arg.fn = "update_from_line" /\ IsSome(ret)) =>
        ret[1] =
              IF arg.rest.uptodate
              THEN WithSlot(arg.self, arg.first.prefix, Complete)
              ELSE IF IsSome(arg.rest.pct)
                   THEN WithSlot(arg.self, arg.first.equals,
                                 IF arg.rest.pct[1] >= 100 THEN Complete
                                 ELSE Syncing(arg.rest.pct[1]))
              ELSE arg.self

\* a Complete slot is overwritten by a lower percentage
C11_Witness ==
    /\ arg.fn = "update_from_line"
    /\ arg.self.core = Complete
    /\ LineText(arg.lead, arg.first, arg.rest, arg.trail) = <<"c", "o", "r", "e", " ", "4", "5", "%">>
    /\ ret = Some([arg.self EXCEPT !.core = Syncing(45)])


----------------------------------------------------------------------------
(* filter_upgrade_line and should_print, src/src/pacman.rs:328-359 *)

STR_total_download_size == <<"T", "o", "t", "a", "l", " ", "D", "o", "w", "n", "l", "o", "a", "d", " ", "S", "i", "z", "e", ":">>

STR_total_installed_size == <<"T", "o", "t", "a", "l", " ", "I", "n", "s", "t", "a", "l", "l", "e", "d", " ", "S", "i", "z", "e", ":">>

STR_net_upgrade_size == <<"N", "e", "t", " ", "U", "p", "g", "r", "a", "d", "e", " ", "S", "i", "z", "e", ":">>

STR_resolving_dependencies == <<"r", "e", "s", "o", "l", "v", "i", "n", "g", " ", "d", "e", "p", "e", "n", "d", "e", "n", "c", "i", "e", "s">>

STR_looking_for_conflicting == <<"l", "o", "o", "k", "i", "n", "g", " ", "f", "o", "r", " ", "c", "o", "n", "f", "l", "i", "c", "t", "i", "n", "g", " ", "p", "a", "c", "k", "a", "g", "e", "s">>

STR_starting_full_upgrade == <<":", ":", " ", "S", "t", "a", "r", "t", "i", "n", "g", " ", "f", "u", "l", "l", " ", "s", "y", "s", "t", "e", "m", " ", "u", "p", "g", "r", "a", "d", "e", ".", ".", ".">>

\* bug: the emptiness test is made before trimming
filter_upgrade_line_untrimmed(line) ==
    LET clean == strip_ansi(line)
        trimmed == trim(clean)
    IN  IF clean = <<>> THEN FALSE
        ELSE IF \/ str_contains(trimmed, STR_total_download_size)
                \/ str_contains(trimmed, STR_total_installed_size)
                \/ str_contains(trimmed, STR_net_upgrade_size)
             THEN FALSE
        ELSE IF \/ str_contains(trimmed, STR_resolving_dependencies)
                \/ str_contains(trimmed, STR_looking_for_conflicting)
                \/ str_contains(trimmed, STR_starting_full_upgrade)
             THEN FALSE
        ELSE TRUE

\* filter_upgrade_line, lines 328-351
filter_upgrade_line(line) ==
    LET clean == strip_ansi(line)
        trimmed == trim(clean)
    IN  IF trimmed = <<>> THEN FALSE
        ELSE IF \/ str_contains(trimmed, STR_total_download_size)
                \/ str_contains(trimmed, STR_total_installed_size)
                \/ str_contains(trimmed, STR_net_upgrade_size)
             THEN FALSE
        ELSE IF \/ str_contains(trimmed, STR_resolving_dependencies)
                \/ str_contains(trimmed, STR_looking_for_conflicting)
                \/ str_contains(trimmed, STR_starting_full_upgrade)
             THEN FALSE
        ELSE TRUE

\* should_print, lines 353-359
should_print(line, filter_on) ==
    IF filter_on THEN filter_upgrade_line(line) ELSE TRUE

\* what precedes the body of an output line; a lone ESC swallows what
\* follows it up to and including the next "m", or all of it when no "m"
\* follows
BareEsc == <<ESC>>

OutputLeads == {<<>>, <<" ", " ">>, <<ESC, "[", "1", "m">>, BareEsc}

OutputTrails == {<<>>, <<" ", "\t">>, <<ESC, "[", "0", "m">>}

\* the body of an output line: its text, whether the text is empty or
\* holds one of the six substrings, and the same for what is left of it
\* after a lone ESC before it
OutputBody(text, suppressed, after_esc) ==
    [text |-> text, suppressed |-> suppressed, after_esc |-> after_esc]

OutputBodies ==
    {OutputBody(<<>>, TRUE, TRUE),
     OutputBody(<<" ", " ", " ">>, TRUE, TRUE),
     OutputBody(<<"T", "o", "t", "a", "l", " ", "D", "o", "w", "n", "l", "o", "a", "d", " ", "S", "i", "z", "e", ":", " ", " ", " ", "1", "2", ".", "5", "0", " ", "M", "i", "B">>, TRUE, TRUE),
     OutputBody(<<"T", "o", "t", "a", "l", " ", "I", "n", "s", "t", "a", "l", "l", "e", "d", " ", "S", "i", "z", "e", ":", " ", " ", "4", "0", ".", "0", "0", " ", "M", "i", "B">>, TRUE, TRUE),
     OutputBody(<<"N", "e", "t", " ", "U", "p", "g", "r", "a", "d", "e", " ", "S", "i", "z", "e", ":", " ", " ", " ", " ", " ", " ", " ", "1", ".", "2", "5", " ", "M", "i", "B">>, TRUE, TRUE),
     OutputBody(<<"r", "e", "s", "o", "l", "v", "i", "n", "g", " ", "d", "e", "p", "e", "n", "d", "e", "n", "c", "i", "e", "s", ".", ".", ".">>, TRUE, TRUE),
     OutputBody(<<"l", "o", "o", "k", "i", "n", "g", " ", "f", "o", "r", " ", "c", "o", "n", "f", "l", "i", "c", "t", "i", "n", "g", " ", "p", "a", "c", "k", "a", "g", "e", "s", ".", ".", ".">>, TRUE, TRUE),
     OutputBody(<<":", ":", " ", "S", "t", "a", "r", "t", "i", "n", "g", " ", "f", "u", "l", "l", " ", "s", "y", "s", "t", "e", "m", " ", "u", "p", "g", "r", "a", "d", "e", ".", ".", ".">>, TRUE, FALSE),
     OutputBody(<<"p", "k", "g", ":", " ", "r", "e", "s", "o", "l", "v", "i", "n", "g", " ", "d", "e", "p", "e", "n", "d", "e", "n", "c", "i", "e", "s">>, TRUE, TRUE),
     OutputBody(<<"s", "y", "s", "t", "e", "m", ":", " ", "N", "e", "t", " ", "U", "p", "g", "r", "a", "d", "e", " ", "S", "i", "z", "e", ":", " ", "1", " ", "M", "i", "B">>, TRUE, TRUE),
     OutputBody(<<"T", "o", "t", "a", "l", " ", ESC, "[", "1", "m", "D", "o", "w", "n", "l", "o", "a", "d", " ", "S", "i", "z", "e", ":", ESC, "[", "0", "m", " ", "3", " ", "M", "i", "B">>, TRUE, FALSE),
     OutputBody(<<"w", "a", "r", "n", "i", "n", "g", ":", " ", "e", "x", "a", "m", "p", "l", "e", "-", "p", "k", "g", ":", " ", "i", "g", "n", "o", "r", "i", "n", "g", " ", "p", "a", "c", "k", "a", "g", "e", " ", "u", "p", "g", "r", "a", "d", "e">>, FALSE, FALSE),
     OutputBody(<<"P", "a", "c", "k", "a", "g", "e", "s", " ", "(", "2", ")", " ", "a", "-", "1", ".", "0", "-", "1", " ", " ", "b", "-", "2", ".", "0", "-", "1">>, FALSE, TRUE),
     OutputBody(<<"T", "o", "t", "a", "l", " ", "D", "o", "w", "n", "l", "o", "a", "d", " ", "S", "i", "z", "e", " ", " ", "1", "2", ".", "5", "0", " ", "M", "i", "B">>, FALSE, TRUE),
     OutputBody(<<"t", "o", "t", "a", "l", " ", "i", "n", "s", "t", "a", "l", "l", "e", "d", " ", "s", "i", "z", "e", ":", " ", "1", " ", "M", "i", "B">>, FALSE, TRUE),
     OutputBody(<<"N", "e", "t", " ", " ", "U", "p", "g", "r", "a", "d", "e", " ", "S", "i", "z", "e", ":", " ", "1", " ", "M", "i", "B">>, FALSE, TRUE),
     OutputBody(<<"R", "e", "s", "o", "l", "v", "i", "n", "g", " ", "d", "e", "p", "e", "n", "d", "e", "n", "c", "i", "e", "s", ".", ".", ".">>, FALSE, TRUE),
     OutputBody(<<"l", "o", "o", "k", "i", "n", "g", " ", "f", "o", "r", " ", "c", "o", "n", "f", "l", "i", "c", "t", "i", "n", "g", " ", " ", "p", "a", "c", "k", "a", "g", "e", "s", ".", ".", ".">>, FALSE, TRUE),
     OutputBody(<<":", ":", " ", "S", "t", "a", "r", "t", "i", "n", "g", " ", "f", "u", "l", "l", " ", "s", "y", "s", "t", "e", "m", " ", "u", "p", "g", "r", "a", "d", "e">>, FALSE, FALSE),
     OutputBody(<<":", ":", " ", "P", "r", "o", "c", "e", "e", "d", " ", "w", "i", "t", "h", " ", "i", "n", "s", "t", "a", "l", "l", "a", "t", "i", "o", "n", "?", " ", "[", "Y", "/", "n", "]", " ">>, FALSE, TRUE)}

OutputText(lead, body, trail) == lead \o body.text \o trail

InitFilter ==
    /\ OthersIdle
    /\ arg \in [fn : {"should_print"}, filter : BOOLEAN, lead : OutputLeads,
                body : OutputBodies, trail : OutputTrails]
    /\ ret = None

\* should_print(&line, filter)
ApplyShouldPrint ==
    /\ arg.fn = "should_print"
    /\ ret = None
    /\ ret' = Some(should_print(OutputText(arg.lead, arg.body, arg.trail), arg.filter))
    /\ UNCHANGED <<arg, stats_vars, sync_vars, pty_vars, up_vars>>

NextFilter == ApplyShouldPrint

SpecFilter == InitFilter /\ [][NextFilter]_vars

\* C12: with the filter off every line is kept; with the filter on a line
\* is suppressed iff, once ANSI sequences and surrounding whitespace are
\* removed, it is empty or holds one of the six substrings
C12_SuppressedIffEmptyOrListed ==
    (arg.fn = "should_print" /\ IsSome(ret)) =>
        ret[1] = IF arg.filter
                 THEN ~(IF arg.lead = BareEsc THEN arg.body.after_esc
                        ELSE arg.body.suppressed)
                 ELSE TRUE

\* a size line wrapped in colour codes is suppressed when the filter is on
C12_Witness ==
    /\ arg.fn = "should_print"
    /\ arg.filter
    /\ OutputText(arg.lead, arg.body, arg.trail) =
           <<ESC, "[", "1", "m", "T", "o", "t", "a", "l", " ", "D", "o", "w", "n", "l", "o", "a", "d", " ", "S", "i", "z", "e", ":", " ", " ", " ", "1", "2", ".", "5", "0", " ", "M", "i", "B", ESC, "[", "0", "m">>
    /\ ret = Some(FALSE)


----------------------------------------------------------------------------
(* strip_ansi as a function of its argument, src/src/util.rs:46-61 *)

\* longest string given to strip_ansi
MaxAnsiLen == 4

\* ESC, the letter that ends a sequence, and two characters that do not
AnsiAlphabet == {ESC, "m", "[", "a"}

AnsiStrings == UNION {[1..n -> AnsiAlphabet] : n \in 0..MaxAnsiLen}

InitAnsi ==
    /\ OthersIdle
    /\ arg \in [fn : {"strip_ansi"}, s : AnsiStrings]
    /\ ret = None

\* strip_ansi(s), and strip_ansi applied to its result
ApplyStripAnsi ==
    /\ arg.fn = "strip_ansi"
    /\ ret = None
    /\ ret' = Some([once |-> strip_ansi(arg.s),
                    twice |-> strip_ansi(strip_ansi(arg.s))])
    /\ UNCHANGED <<arg, stats_vars, sync_vars, pty_vars, up_vars>>

NextAnsi == ApplyStripAnsi

SpecAnsi == InitAnsi /\ [][NextAnsi]_vars

\* C20: stripping a string twice gives the same text as stripping it once
C20_StripAnsiIdempotent ==
    (arg.fn = "strip_ansi" /\ IsSome(ret)) => ret[1].twice = ret[1].once

\* a string whose escape sequence is removed and whose text, an "m"
\* included, is kept
C20_Witness ==
    /\ arg.fn = "strip_ansi"
    /\ arg.s = <<ESC, "[", "m", "m">>
    /\ ret = Some([once |-> <<"m">>, twice |-> <<"m">>])


----------------------------------------------------------------------------
(* get_seconds_since_update as a function of the log, src/src/pacman.rs:123-164 *)

\* longest log given to the scanner
MaxLogLen == 3

TsNew == Timestamp(TRUE, 3600)

\* the pacman invocations that wrote the log, in the order they ran
LogRuns == {1, 2}

\* What a line of the log says:
\*   "start"      "[ts] [PACMAN] starting full system upgrade"
\*   "started"    "[ts] [ALPM] transaction started"
\*   "completed"  "[ts] [ALPM] transaction completed"
\*   "both"       a line holding both substrings the scanner looks for
\*   "other"      any other line
\* run is the invocation that wrote the line; the scanner cannot see it.
PacmanLogLine(ts, kind, run) ==
    [timestamp |-> ts,
     start |-> kind \in {"start", "both"},
     completed |-> kind \in {"completed", "both"},
     kind |-> kind,
     run |-> run]

PacmanLogLines ==
    {PacmanLogLine(ts, "start", r) : ts \in {TsOld, TsNew, TsFuture, TsBad}, r \in LogRuns}
        \cup {PacmanLogLine(TsOld, k, r) :
                k \in {"started", "completed", "both", "other"}, r \in LogRuns}

PacmanLogs == UNION {[1..n -> PacmanLogLines] : n \in 0..MaxLogLen}

InitLog ==
    /\ OthersIdle
    /\ arg \in [fn : {"get_seconds_since_update"}, lines : PacmanLogs]
    /\ ret = None

\* get_seconds_since_update() on a readable log
ApplyGetSecondsSinceUpdate ==
    /\ arg.fn = "get_seconds_since_update"
    /\ ret = None
    /\ ret' = Some(get_seconds_since_update([readable |-> TRUE, lines |-> arg.lines]))
    /\ UNCHANGED <<arg, stats_vars, sync_vars, pty_vars, up_vars>>

NextLog == ApplyGetSecondsSinceUpdate

SpecLog == InitLog /\ [][NextLog]_vars

\* the start lines that some later (or the same) line completes
CompletedStarts(lines) ==
    {i \in 1..Len(lines) : lines[i].start /\ \E j \in i..Len(lines) : lines[j].completed}

\* the most recent of them
LastCompletedStart(lines) ==
    CHOOSE i \in CompletedStarts(lines) : \A k \in CompletedStarts(lines) : k <= i

\* C18: the scanner returns absent when no start line is followed by a
\* completed line; otherwise it returns the age of the most recent start
\* line that is, clamped at zero, so that a later start line without a
\* completed line after it never replaces it.  (A start line whose timestamp
\* has no age, because it is malformed, makes the function panic.)
C18_MostRecentCompletedBlock ==
    (arg.fn = "get_seconds_since_update" /\ IsSome(ret)) =>
        IF CompletedStarts(arg.lines) = {}
        THEN ret[1] = Returned(None)
        ELSE LET ts == arg.lines[LastCompletedStart(arg.lines)].timestamp
             IN  IF ts.valid
                 THEN /\ ret[1] = Returned(Some(IF ts.age < 0 THEN 0 ELSE ts.age))
                      /\ ret[1].val[1] >= 0
                 ELSE ret[1] = Panicked

\* a completed block in the future followed by a block that only started:
\* the completed one is reported, with age zero
C18_Witness ==
    /\ arg.fn = "get_seconds_since_update"
    /\ arg.lines = <<PacmanLogLine(TsFuture, "start", 1),
                     PacmanLogLine(TsOld, "completed", 1),
                     PacmanLogLine(TsNew, "start", 2)>>
    /\ ret = Some(Returned(Some(0)))

\* a log as pacman writes it: invocations do not interleave, and a
\* transaction completes only after it started
WellFormedLog(lines) ==
    /\ \A i \in 1..Len(lines) : lines[i].kind # "both"
    /\ \A i, j \in 1..Len(lines) : i < j => lines[i].run <= lines[j].run
    /\ \A j \in 1..Len(lines) :
         lines[j].kind = "completed" =>
             \E i \in 1..(j - 1) : lines[i].kind = "started" /\ lines[i].run = lines[j].run

\* the upgrade announced by line i never began its transaction
NeverRan(lines, i) ==
    /\ lines[i].kind = "start"
    /\ ~\E k \in 1..Len(lines) : lines[k].kind = "started" /\ lines[k].run = lines[i].run

\* C19: whatever other transactions the log holds, the age reported is
\* never that of a start line whose own transaction never began
C19_NeverRunUpgradeNotCounted ==
    (/\ arg.fn = "get_seconds_since_update"
     /\ IsSome(ret)
     /\ WellFormedLog(arg.lines)
     /\ ~ret[1].panic
     /\ IsSome(ret[1].val))
        => \E i \in 1..Len(arg.lines) :
             /\ arg.lines[i].kind = "start"
             /\ ~NeverRan(arg.lines, i)
             /\ arg.lines[i].timestamp.valid
             /\ ret[1].val[1] = max0(arg.lines[i].timestamp.age)


----------------------------------------------------------------------------
(* run_pacman_pty, src/src/pacman.rs:361-449 *)

STR_yn_prompt == <<"[", "Y", "/", "n", "]", " ">>

STR_colons == <<":", ":">>

STR_bracket_colon == <<"]", ":", " ">>

STR_proceed == <<"P", "r", "o", "c", "e", "e", "d", " ", "w", "i", "t", "h", " ", "i", "n", "s", "t", "a", "l", "l", "a", "t", "i", "o", "n">>

\* bug: only the yes/no signature is recognised
is_prompt_yn_only(buffer) == ends_with(buffer, STR_yn_prompt)

\* lines 409-410: the prompt signature
is_prompt(buffer) ==
    \/ ends_with(buffer, STR_yn_prompt)
    \/ (str_contains(buffer, STR_colons) /\ ends_with(buffer, STR_bracket_colon))

\* what the subprocess can emit before it exits
PtyOutputs ==
    {<<"P", "r", "o", "c", "e", "e", "d", " ", "w", "i", "t", "h", " ", "i", "n", "s", "t", "a", "l", "l", "a", "t", "i", "o", "n", "?", " ", "[", "Y", "/", "n", "]", " ", "k", "\n">>,
     <<"p", "]", ":", " ", "\r", ":", ":", "]", ":", " ", "z">>,
     <<"N", "e", "t", " ", "U", "p", "g", "r", "a", "d", "e", " ", "S", "i", "z", "e", ":", "[", "Y", "/", "n", "]", " ">>,
     <<ESC, "[", "K", "[", "Y", "/", "n", "]", " ", ESC, "[", "0", "m">>,
     <<"[", "Y", "/", "n", "]", " ", "[", "Y", "/", "n", "]", " ", "a", "\n">>,
     <<" ", "\n", "w", "C3", "A9", "\r", "x">>}

\* what std::io::stdin().read_line(&mut input) can give: a line, end of
\* input (Ok(0), nothing appended), or an error
StdinResults ==
    {[ok |-> TRUE, input |-> <<" ", "y", "\n">>],
     [ok |-> TRUE, input |-> <<>>],
     [ok |-> FALSE, input |-> <<>>]}

InitPty ==
    /\ StatsIdle
    /\ UpIdle
    /\ PureIdle
    /\ sync_pc = "idle"
    /\ progress = SyncProgress_new
    /\ at_exit = SyncProgress_new
    /\ is_root = FALSE
    /\ read_result = "none"
    /\ line_buffer = <<>>
    /\ output \in PtyOutputs
    /\ written = 0
    /\ consumed = 0
    /\ proc_alive = FALSE
    /\ exit_cause = "none"
    /\ pty_pc = "start"
    /\ filter \in BOOLEAN
    /\ term = <<>>
    /\ chunk_rest = <<>>
    /\ seen = <<>>

\* lines 412-418: the prompt is written out if the classifier keeps it
emit_prompt(buffer, filter_on) ==
    IF should_print(buffer, filter_on)
    THEN (IF str_contains(buffer, STR_proceed)
          THEN <<Event("println", <<"\n", "\n">>)>> ELSE <<>>)
         \o <<Event("print", buffer)>>
    ELSE <<>>

\* the first index at or after i of the chunk whose character ends a line
\* or, pushed on the buffer, completes a prompt; 0 when there is none
next_stop(chunk, i, buffer) ==
    LET stops == {k \in i..Len(chunk) :
                    \/ chunk[k] \in {"\n", "\r"}
                    \/ is_prompt(buffer \o SubSeq(chunk, i, k))}
    IN  IF stops = {} THEN 0 ELSE CHOOSE k \in stops : \A j \in stops : k <= j

\* lines 397-430: the `for ch in chunk.chars()` loop, up to the point where
\* it blocks on standard input (prompt = TRUE, rest = the characters of the
\* chunk not yet scanned) or to the end of the chunk.  The characters
\* between two stops are only pushed on the buffer (line 407), so the loop
\* is unrolled one stop at a time; st = [line_buffer, term, seen]
RECURSIVE pty_chunk_loop(_, _, _, _)
pty_chunk_loop(chunk, i, st, filter_on) ==
    LET k == next_stop(chunk, i, st.line_buffer)
    IN  IF k = 0
        THEN [line_buffer |-> st.line_buffer \o SubSeq(chunk, i, Len(chunk)),
              term |-> st.term,
              seen |-> st.seen \o SubSeq(chunk, i, Len(chunk)),
              rest |-> <<>>, prompt |-> FALSE]
        ELSE LET line == st.line_buffer \o SubSeq(chunk, i, k - 1)
                 scanned == st.seen \o SubSeq(chunk, i, k)
             IN  IF chunk[k] = "\n"
                 THEN pty_chunk_loop(chunk, k + 1,
                        [line_buffer |-> <<>>,
                         term |-> IF should_print(line, filter_on)
                                  THEN Append(st.term, Event("println", line))
                                  ELSE st.term,
                         seen |-> scanned], filter_on)
                 ELSE IF chunk[k] = "\r"
                 THEN pty_chunk_loop(chunk, k + 1,
                        [line_buffer |-> <<>>,
                         term |-> IF line # <<>> /\ should_print(line, filter_on)
                                  THEN Append(st.term, Event("print_cr", line))
                                  ELSE st.term,
                         seen |-> scanned], filter_on)
                 ELSE [line_buffer |-> <<>>,
                       term |-> st.term \o emit_prompt(Append(line, chunk[k]), filter_on),
                       seen |-> scanned,
                       rest |-> SubSeq(chunk, k + 1, Len(chunk)),
                       prompt |-> TRUE]

\* lines 364-375: spawn the session, set up the line buffer
PtyStart ==
    /\ pty_pc = "start"
    /\ \E spawn_ok \in BOOLEAN :
         IF spawn_ok THEN pty_pc' = "check_alive" /\ proc_alive' = TRUE
         ELSE pty_pc' = "err_spawn" /\ UNCHANGED proc_alive
    /\ line_buffer' = <<>>
    /\ UNCHANGED <<sync_pc, progress, output, written, consumed, exit_cause, at_exit,
                   read_result, is_root, filter, term, chunk_rest, seen,
                   stats_vars, up_vars, pure_vars>>


\* lines 377-389: `match session.is_alive()`
PtyCheckAlive ==
    /\ pty_pc = "check_alive"
    /\ \E alive \in {"Ok(true)", "Ok(false)", "Err"} :
         /\ alive = "Ok(true)" => proc_alive
         /\ alive = "Ok(false)" => ~proc_alive
         /\ CASE alive = "Ok(true)" ->
                   /\ pty_pc' = "read"
                   /\ UNCHANGED <<term, exit_cause>>
              [] alive = "Ok(false)" ->
                   /\ term' = IF line_buffer # <<>> /\ should_print(line_buffer, filter)
                              THEN Append(term, Event("println", line_buffer))
                              ELSE term
                   /\ exit_cause' = "not_alive"
                   /\ pty_pc' = "done"
              [] alive = "Err" ->
                   /\ exit_cause' = "alive_err"
                   /\ pty_pc' = "done"
                   /\ UNCHANGED term
    /\ UNCHANGED <<sync_pc, progress, line_buffer, output, written, consumed, proc_alive,
                   at_exit, read_result, is_root, filter, chunk_rest, seen,
                   stats_vars, up_vars, pure_vars>>

\* lines 391-438: `match session.try_read(&mut buf)`
PtyRead ==
    /\ pty_pc = "read"
    /\ \/ \* Err(e): a transient kind retries, any other kind breaks the loop
          \E kind \in ErrorKinds :
            /\ read_result' = kind
            /\ IF is_transient(kind)
               THEN /\ pty_pc' = "check_alive"
                    /\ UNCHANGED exit_cause
               ELSE /\ pty_pc' = "exited"
                    /\ exit_cause' = "read_err"
            /\ UNCHANGED <<line_buffer, consumed, term, chunk_rest, seen>>
       \/ \* Ok(0) => continue
          /\ consumed = written
          /\ read_result' = "Ok(0)"
          /\ pty_pc' = "check_alive"
          /\ UNCHANGED <<line_buffer, consumed, exit_cause, term, chunk_rest, seen>>
       \/ \* Ok(n): n bytes of what the PTY holds, at most the buffer size
          \E n \in 1..(written - consumed) :
            /\ n <= BufSize
            /\ \E st \in {pty_chunk_loop(
                            from_utf8_lossy(SubSeq(output, consumed + 1, consumed + n), 1),
                            1, [line_buffer |-> line_buffer, term |-> term, seen |-> seen],
                            filter)} :
                   /\ line_buffer' = st.line_buffer
                   /\ term' = st.term
                   /\ seen' = st.seen
                   /\ chunk_rest' = st.rest
                   /\ pty_pc' = IF st.prompt THEN "stdin" ELSE "check_alive"
            /\ consumed' = consumed + n
            /\ read_result' = "Ok(n)"
            /\ UNCHANGED exit_cause
    /\ UNCHANGED <<sync_pc, progress, output, written, proc_alive, at_exit, is_root,
                   filter, stats_vars, up_vars, pure_vars>>

\* lines 421-424, then the rest of the `for ch` loop: the blocking read of
\* one line of standard input, the line forwarded to the session, and the
\* scan of the characters of the chunk that follow the prompt
PtyStdin ==
    /\ pty_pc = "stdin"
    /\ \E r \in StdinResults :
         \E st \in {pty_chunk_loop(chunk_rest, 1,
                      [line_buffer |-> line_buffer,
                       term |-> Append(term, Event("stdin",
                                                   IF r.ok THEN r.input ELSE <<"Err">>))
                                \o (IF r.ok THEN <<Event("send_line", trim(r.input))>>
                                    ELSE <<>>),
                       seen |-> seen],
                      filter)} :
             /\ line_buffer' = st.line_buffer
             /\ term' = st.term
             /\ seen' = st.seen
             /\ chunk_rest' = st.rest
             /\ pty_pc' = IF st.prompt THEN "stdin" ELSE "check_alive"
    /\ UNCHANGED <<sync_pc, progress, output, written, consumed, proc_alive, exit_cause,
                   at_exit, read_result, is_root, filter, stats_vars, up_vars, pure_vars>>

\* lines 441-448: after the loop, the last line is flushed, the terminal
\* attributes are reset and Ok(()) is returned
PtyFinish ==
    /\ pty_pc = "exited"
    /\ term' = (IF line_buffer # <<>> /\ should_print(line_buffer, filter)
                THEN Append(term, Event("println", line_buffer))
                ELSE term)
               \o <<Event("print", <<ESC, "[", "0", "m">>)>>
    /\ pty_pc' = "done"
    /\ UNCHANGED <<sync_pc, progress, line_buffer, output, written, consumed, proc_alive,
                   exit_cause, at_exit, read_result, is_root, filter, chunk_rest, seen,
                   stats_vars, up_vars, pure_vars>>

NextPty ==
    \/ PtyStart
    \/ ProcWrite
    \/ ProcExit
    \/ PtyCheckAlive
    \/ PtyRead
    \/ PtyStdin
    \/ PtyFinish

SpecPty == InitPty /\ [][NextPty]_vars

\* either driver, on its own subprocess
NextDrivers == NextSync \/ NextPty

SpecDrivers == (InitSync \/ InitPty) /\ [][NextDrivers]_vars


----------------------------------------------------------------------------
(* Properties of run_pacman_pty and run_pacman_sync, checked under SpecPty
   and SpecDrivers *)

\* The prompts in the characters scanned so far, found one character at a
\* time: a line break empties the current line; a current line that ends
\* with "[Y/n] ", or holds "::" and ends with "]: ", is a prompt and
\* empties the current line too.  acc = [count, last]
RECURSIVE PromptScan(_, _, _, _)
PromptScan(s, i, cur, acc) ==
    IF i > Len(s) THEN acc
    ELSE IF s[i] \in {"\n", "\r"} THEN PromptScan(s, i + 1, <<>>, acc)
    ELSE LET c == Append(cur, s[i])
         IN  IF \/ ends_with(c, <<"[", "Y", "/", "n", "]", " ">>)
                \/ (str_contains(c, <<":", ":">>) /\ ends_with(c, <<"]", ":", " ">>))
             THEN PromptScan(s, i + 1, <<>>, [count |-> acc.count + 1, last |-> c])
             ELSE PromptScan(s, i + 1, c, acc)

Prompts == PromptScan(seen, 1, <<>>, [count |-> 0, last |-> <<>>])

\* the number of reads of standard input so far
StdinReads == Cardinality({k \in 1..Len(term) : term[k].op = "stdin"})

\* the last thing the driver did
LastEvent == term[Len(term)]

\* C13: at a prompt the buffered text is written out, the buffer is
\* cleared and nothing more is scanned before a line of standard input is
\* read; every line that was read is followed by a line sent to the
\* subprocess
C13_PromptEmittedBeforeInput ==
    /\ pty_pc = "stdin" =>
         /\ line_buffer = <<>>
         /\ ends_with(seen, Prompts.last)
         /\ term # <<>>
         /\ LastEvent = Event("print", Prompts.last)
    /\ \A k \in 1..Len(term) :
         (term[k].op = "stdin" /\ term[k].text # <<"Err">>) =>
             /\ k > 1
             /\ term[k - 1].op = "print"
             /\ k < Len(term)
             /\ term[k + 1].op = "send_line"

\* C14: run_pacman_sync never reads standard input, and run_pacman_pty has
\* read it once for each prompt among the characters it has scanned, the
\* read it is about to make included
C14_StdinOnlyAtPrompts ==
    /\ sync_pc # "idle" => StdinReads = 0 /\ pty_pc = "idle"
    /\ pty_pc # "idle" =>
         StdinReads + (IF pty_pc = "stdin" THEN 1 ELSE 0) = Prompts.count

\* two prompts scanned, the second of the other signature or in the same
\* chunk, and two lines of standard input read
C14_Witness ==
    /\ pty_pc = "done"
    /\ Prompts.count = 2
    /\ StdinReads = 2

\* C15: when run_pacman_pty returns because the liveness check said the
\* process exited, or failed, a non-empty buffered line that the classifier
\* keeps has been printed last
C15_FlushOnLivenessExit ==
    (/\ pty_pc = "done"
     /\ exit_cause \in {"not_alive", "alive_err"}
     /\ line_buffer # <<>>
     /\ should_print(line_buffer, filter))
        => (term # <<>> /\ LastEvent = Event("println", line_buffer))

\* the pc of the driver that is running
DriverPc == IF pty_pc # "idle" THEN pty_pc ELSE sync_pc

\* C16: a read that fails with WouldBlock or Interrupted leaves the line
\* buffer, the tracker and the terminal as they were and goes back to the
\* liveness check; a read that fails otherwise ends the loop with the buffer
\* and tracker as they were, and the driver goes on to return Ok
C16_TransientReadErrorsRetry ==
    /\ [][(DriverPc = "read" /\ DriverPc' # "read"
           /\ read_result' \in {"WouldBlock", "Interrupted", "Other"})
          => /\ line_buffer' = line_buffer
             /\ progress' = progress
             /\ term' = term
             /\ consumed' = consumed
             /\ DriverPc' = IF read_result' = "Other" THEN "exited" ELSE "check_alive"]_vars
    /\ [](exit_cause = "read_err" => DriverPc \in {"exited", "done"})
    /\ [][DriverPc = "exited" => DriverPc' \in {"exited", "done"}]_vars

\* an interrupted read in the middle of a line of the database sync
C16_Witness ==
    /\ sync_pc = "check_alive"
    /\ read_result = "Interrupted"
    /\ line_buffer # <<>>
    /\ progress # SyncProgress_new


----------------------------------------------------------------------------
(* sync_databases and upgrade_system, src/src/pacman.rs:530-560 *)

\* config.display.stats as loaded by Config::load()
ConfigRequests == {<<>>, <<"Installed", "MirrorHealth", "MirrorUrl">>}

\* what `pacman -Sy` and `pacman -Su` emit when upgrade_system runs them
UpSyncOutputs == {<<"c", "o", "r", "e", " ", "9", "%", "\r", "c", "o", "r", "e", " ", "i", "s", " ", "u", "p", " ", "t", "o", " ", "d", "a", "t", "e", "\n">>}

UpPtyOutputs == {<<"a", "\n", ":", ":", "b", " ", "[", "Y", "/", "n", "]", " ", "c">>, <<ESC, "[", "K", "[", "Y", "/", "n", "]", " ">>}

UpEntries == {"upgrade_system", "sync_databases"}

InitUpgrade ==
    /\ StatsIdle
    /\ PtyIdle
    /\ PureIdle
    /\ sync_pc = "idle"
    /\ progress = SyncProgress_new
    /\ line_buffer = <<>>
    /\ output = <<>>
    /\ written = 0
    /\ consumed = 0
    /\ proc_alive = FALSE
    /\ exit_cause = "none"
    /\ at_exit = SyncProgress_new
    /\ read_result = "none"
    /\ is_root \in BOOLEAN
    /\ up_pc \in UpEntries
    /\ text_mode \in BOOLEAN
    /\ sync_first \in BOOLEAN
    /\ steps = <<>>
    /\ SpeedIdle

\* bug: the root check is left to the callees
upgrade_entry_unchecked(root, sync) ==
    IF sync THEN "run_pacman_sync" ELSE "get_stats"

\* lines 535-543: what upgrade_system does first
upgrade_entry(root, sync) ==
    IF ~root THEN "err_root"
    ELSE IF sync THEN "run_pacman_sync" ELSE "get_stats"

\* the callee's frame is gone: the session is dropped with the locals
DropSession ==
    /\ progress' = SyncProgress_new
    /\ line_buffer' = <<>>
    /\ output' = <<>>
    /\ written' = 0
    /\ consumed' = 0
    /\ proc_alive' = FALSE
    /\ exit_cause' = "none"
    /\ at_exit' = SyncProgress_new
    /\ read_result' = "none"

\* run_pacman_sync() is entered
CallSync ==
    /\ sync_pc' = "start"
    /\ output' \in UpSyncOutputs
    /\ UNCHANGED <<progress, line_buffer, written, consumed, proc_alive, exit_cause,
                   at_exit, read_result, is_root, stats_vars, pty_vars>>

\* get_stats(&config.display.stats, false) is entered
CallStats ==
    /\ requested' \in ConfigRequests
    /\ pc' = "upgrade"
    /\ UNCHANGED <<stats, sync_handle, worker_pc, worker_url, worker_result, calls>>

\* line 531: sync_databases is run_pacman_sync
SyncDatabasesEnter ==
    /\ up_pc = "sync_databases"
    /\ up_pc' = "in_sync"
    /\ steps' = <<"sync_databases", "run_pacman_sync">>
    /\ CallSync
    /\ UNCHANGED <<text_mode, sync_first, speed_vars, pure_vars>>

\* lines 535-545: root check, configuration, and the first callee
UpgradeEnter ==
    /\ up_pc = "upgrade_system"
    /\ LET first == upgrade_entry(is_root, sync_first)
       IN  CASE first = "err_root" ->
                  /\ up_pc' = "err_root"
                  /\ steps' = <<"upgrade_system">>
                  /\ UNCHANGED <<stats_vars, sync_vars, pty_vars>>
             [] first = "run_pacman_sync" ->
                  /\ up_pc' = "in_sync"
                  /\ steps' = <<"upgrade_system", "Config::load", "run_pacman_sync">>
                  /\ CallSync
             [] first = "get_stats" ->
                  /\ up_pc' = "in_stats"
                  /\ steps' = <<"upgrade_system", "Config::load", "get_stats">>
                  /\ CallStats
                  /\ UNCHANGED <<sync_vars, pty_vars>>
    /\ UNCHANGED <<text_mode, sync_first, speed_vars, pure_vars>>


\* bug: an error of the database sync is ignored (`let _ =` instead of `?`)
SyncReturn_ignores_error ==
    /\ up_pc = "in_sync"
    /\ sync_pc \in {"done", "err_root", "err_spawn"}
    /\ DropSession
    /\ IF steps[1] = "sync_databases"
       THEN /\ up_pc' = IF sync_pc = "done" THEN "ok" ELSE sync_pc
            /\ UNCHANGED <<steps, stats_vars>>
       ELSE /\ up_pc' = "in_stats"
            /\ steps' = Append(steps, "get_stats")
            /\ CallStats
    /\ UNCHANGED <<sync_pc, is_root, pty_vars, text_mode, sync_first, speed_vars, pure_vars>>

\* run_pacman_sync has returned: line 531, or the `?` of line 543
SyncReturn ==
    /\ up_pc = "in_sync"
    /\ sync_pc \in {"done", "err_root", "err_spawn"}
    /\ DropSession
    /\ IF sync_pc # "done"
       THEN /\ up_pc' = sync_pc
            /\ UNCHANGED <<steps, stats_vars>>
       ELSE IF steps[1] = "sync_databases"
       THEN /\ up_pc' = "ok"
            /\ UNCHANGED <<steps, stats_vars>>
       ELSE /\ up_pc' = "in_stats"
            /\ steps' = Append(steps, "get_stats")
            /\ CallStats
    /\ UNCHANGED <<sync_pc, is_root, pty_vars, text_mode, sync_first, speed_vars, pure_vars>>

\* lines 546-559: get_stats has returned (or unwound); the stats are
\* displayed, after which they are not read again, and `pacman -Su` is run
\* with the filter on
StatsReturn ==
    /\ up_pc = "in_stats"
    /\ pc \in {"done", "panicked"}
    /\ IF pc = "panicked"
       THEN /\ up_pc' = "panicked"
            /\ UNCHANGED <<steps, stats_vars, sync_vars, pty_vars>>
       ELSE /\ \E graphics_ok \in {g \in BOOLEAN : text_mode => g} :
                 steps' = steps
                          \o (IF text_mode THEN <<"display_stats">>
                              ELSE IF graphics_ok THEN <<"display_stats_with_graphics">>
                              ELSE <<"display_stats_with_graphics", "display_stats">>)
                          \o <<"run_pacman_pty">>
            /\ up_pc' = "in_pty"
            /\ requested' = <<>>
            /\ stats' = DefaultStats
            /\ sync_handle' = FALSE
            /\ worker_pc' = "none"
            /\ worker_url' = None
            /\ worker_result' = None
            /\ calls' = <<>>
            /\ pty_pc' = "start"
            /\ filter' = TRUE
            /\ output' \in UpPtyOutputs
            /\ term' = <<>>
            /\ seen' = <<>>
            /\ UNCHANGED <<pc, sync_pc, progress, line_buffer, written, consumed,
                           proc_alive, exit_cause, at_exit, read_result, is_root,
                           chunk_rest>>
    /\ UNCHANGED <<text_mode, sync_first, speed_vars, pure_vars>>

\* line 559: what run_pacman_pty returned is what upgrade_system returns
PtyReturn ==
    /\ up_pc = "in_pty"
    /\ pty_pc \in {"done", "err_spawn"}
    /\ up_pc' = IF pty_pc = "done" THEN "ok" ELSE "err_spawn"
    /\ DropSession
    /\ UNCHANGED <<sync_pc, is_root, stats_vars, pty_vars, steps, text_mode, sync_first, speed_vars,
                   pure_vars>>

\* the drivers and get_stats take their steps with up_vars unchanged
NextUpgrade ==
    \/ SyncDatabasesEnter
    \/ UpgradeEnter
    \/ SyncReturn
    \/ StatsReturn
    \/ PtyReturn
    \/ NextSync
    \/ NextStats
    \/ NextPty

SpecUpgrade == InitUpgrade /\ [][NextUpgrade]_vars

\* no session was spawned, no probe was run and get_stats was not entered
NothingSpawned ==
    /\ ~proc_alive
    /\ written = 0
    /\ sync_pc \in {"idle", "start", "err_root"}
    /\ pty_pc = "idle"
    /\ pc = "idle"
    /\ worker_pc = "none"
    /\ calls = <<>>
    /\ term = <<>>
    /\ \A k \in 1..Len(steps) :
         steps[k] \in {"upgrade_system", "sync_databases", "run_pacman_sync"}

\* C17: when the process is not root, sync_databases and upgrade_system
\* spawn nothing, gather no stats, and end with the root error
C17_NotRootFailsBeforeSpawn ==
    ~is_root =>
        /\ NothingSpawned
        /\ up_pc \in {"upgrade_system", "sync_databases", "in_sync", "err_root"}
        /\ (up_pc = "in_sync" => steps[1] = "sync_databases")

\* upgrade_system with sync_first set, not root: the error is returned and
\* run_pacman_sync was not even entered
C17_Witness ==
    /\ ~is_root
    /\ sync_first
    /\ up_pc = "err_root"
    /\ steps = <<"upgrade_system">>
    /\ sync_pc = "idle"


----------------------------------------------------------------------------
(* two calls of strip_ansi in a row, src/src/util.rs:46-61 *)

\* longest string given to each of the two calls
MaxCallLen == 2

CallStrings == UNION {[1..n -> AnsiAlphabet] : n \in 0..MaxCallLen}

InitAnsiCalls ==
    /\ OthersIdle
    /\ arg \in [fn : {"strip_ansi twice"}, first : CallStrings, second : CallStrings]
    /\ ret = None

\* strip_ansi(first), then strip_ansi(second): `result` and `in_escape` are
\* locals of each call (lines 47-48)
ApplyStripAnsiCalls ==
    /\ arg.fn = "strip_ansi twice"
    /\ ret = None
    /\ ret' = Some([first |-> strip_ansi(arg.first), second |-> strip_ansi(arg.second)])
    /\ UNCHANGED <<arg, stats_vars, sync_vars, pty_vars, up_vars>>

NextAnsiCalls == ApplyStripAnsiCalls

SpecAnsiCalls == InitAnsiCalls /\ [][NextAnsiCalls]_vars

\* the indices of s that lie in no span from an ESC to the next "m"
KeptIndices(s) ==
    {i \in 1..Len(s) :
        ~\E j \in 1..i : s[j] = ESC /\ \A k \in (j + 1)..(i - 1) : s[k] # "m"}

\* the characters at those indices, in their order
KeptText(s) ==
    [n \in 1..Cardinality(KeptIndices(s)) |->
        s[CHOOSE i \in KeptIndices(s) : Cardinality({j \in KeptIndices(s) : j <= i}) = n]]

\* C21: strip_ansi returns the characters outside every span from an ESC to
\* the next "m" inclusive (to the end of the input when no "m" follows), in
\* their order
C21_SpansRemovedRestKept ==
    (arg.fn = "strip_ansi" /\ IsSome(ret)) => ret[1].once = KeptText(arg.s)

\* text, a closed sequence, text, then an ESC that nothing closes
C21_Witness ==
    /\ arg.fn = "strip_ansi"
    /\ arg.s = <<"a", ESC, "m", "[">> 
    /\ ret # None
    /\ ret[1].once = <<"a", "[">>

\* C21, second part: what a call returns does not depend on the call made
\* before it, even when that call ended inside an escape sequence
C21_NoCarryOver ==
    (arg.fn = "strip_ansi twice" /\ IsSome(ret)) =>
        /\ ret[1].first = KeptText(arg.first)
        /\ ret[1].second = KeptText(arg.second)


NextAnsiBoth == NextAnsi \/ NextAnsiCalls

SpecAnsiBoth == (InitAnsi \/ InitAnsiCalls) /\ [][NextAnsiBoth]_vars

\* C21: strip_ansi removes exactly the spans from an ESC to the next "m"
\* inclusive (to the end of the input when no "m" follows), keeps every other
\* character in order, and a call is not affected by the call before it
C21_StripAnsiSpans == C21_SpansRemovedRestKept /\ C21_NoCarryOver


----------------------------------------------------------------------------
(* SyncProgress::format, src/src/pacman.rs:59-73 *)

CHECK_MARK == "U+2713"

\* format!("{}", pct) of a u8
u8_to_string(pct) ==
    LET digit(n) == CHOOSE c \in Digits : digit_value(c) = n
    IN  IF pct >= 100 THEN <<digit(pct \div 100), digit((pct \div 10) % 10), digit(pct % 10)>>
        ELSE IF pct >= 10 THEN <<digit(pct \div 10), digit(pct % 10)>>
        ELSE <<digit(pct)>>

\* SyncProgress::format_state, lines 68-73
format_state(state) ==
    IF state = Complete THEN <<CHECK_MARK>> ELSE u8_to_string(state[2]) \o <<"%">>

\* SyncProgress::format, lines 59-66: takes &self and returns the text
format(self) ==
    [self |-> self,
     text |-> <<"c", "o", "r", "e", " ">> \o format_state(self.core) \o <<" ", "|", " ", "e", "x", "t", "r", "a", " ">>
              \o format_state(self.extra) \o <<" ", "|", " ", "m", "u", "l", "t", "i", "l", "i", "b", " ">>
              \o format_state(self.multilib)]

\* percentages a slot can hold when it is formatted
FormatSlotStates == {Syncing(0), Syncing(7), Syncing(45), Syncing(99), Syncing(255), Complete}

InitFormat ==
    /\ OthersIdle
    /\ arg \in [fn : {"format"},
                self : [core : FormatSlotStates, extra : FormatSlotStates,
                        multilib : FormatSlotStates]]
    /\ ret = None

\* progress.format()
ApplyFormat ==
    /\ arg.fn = "format"
    /\ ret = None
    /\ ret' = Some(format(arg.self))
    /\ UNCHANGED <<arg, stats_vars, sync_vars, pty_vars, up_vars>>

NextTrackerBoth == NextTracker \/ ApplyFormat

SpecTrackerBoth == (InitTracker \/ InitFormat) /\ [][NextTrackerBoth]_vars

\* the slots whose value differs between two trackers
ChangedSlots(old, new) ==
    {slot \in {"core", "extra", "multilib"} : old[slot] # new[slot]}

----------------------------------------------------------------------------
(* Line handling of the two drivers, checked under SpecDrivers *)

\* The characters scanned so far cut into segments, one character at a
\* time: a '\n' or a '\r' ends the current segment; with prompts_on, so does
\* a character that makes the current segment a prompt.
\* acc = the segments ended so far, each [text, end]; cur = the open one
RECURSIVE Segments(_, _, _, _, _)
Segments(s, i, cur, acc, prompts_on) ==
    IF i > Len(s) THEN [ended |-> acc, open |-> cur]
    ELSE IF s[i] \in {"\n", "\r"}
         THEN Segments(s, i + 1, <<>>, Append(acc, [text |-> cur, end |-> s[i]]), prompts_on)
    ELSE LET c == Append(cur, s[i])
         IN  IF prompts_on /\
                (\/ ends_with(c, <<"[", "Y", "/", "n", "]", " ">>)
                 \/ (str_contains(c, <<":", ":">>) /\ ends_with(c, <<"]", ":", " ">>)))
             THEN Segments(s, i + 1, <<>>, Append(acc, [text |-> c, end |-> "prompt"]),
                           prompts_on)
             ELSE Segments(s, i + 1, c, acc, prompts_on)

\* whether the classifier keeps a line: without the filter every line,
\* with it every line should_print keeps
Kept(text) == ~filter \/ should_print(text, TRUE)

\* what run_pacman_pty writes for one ended segment
WrittenFor(seg) ==
    CASE seg.end = "\n" ->
           IF Kept(seg.text) THEN <<Event("println", seg.text)>> ELSE <<>>
      [] seg.end = "\r" ->
           IF seg.text # <<>> /\ Kept(seg.text)
           THEN <<Event("print_cr", seg.text)>> ELSE <<>>
      [] OTHER ->
           IF Kept(seg.text)
           THEN (IF str_contains(seg.text, STR_proceed)
                 THEN <<Event("println", <<"\n", "\n">>)>> ELSE <<>>)
                \o <<Event("print", seg.text)>>
           ELSE <<>>

\* what run_pacman_sync feeds for one ended segment
FedFor(seg) ==
    IF seg.text # <<>> THEN <<Event("update_from_line", seg.text)>> ELSE <<>>

RECURSIVE FlatMap(_, _)
FlatMap(Op(_), segs) ==
    IF segs = <<>> THEN <<>> ELSE Op(Head(segs)) \o FlatMap(Op, Tail(segs))

\* what the driver has written to the terminal, in order
Writes == SelectSeq(term, LAMBDA e : e.op \in {"println", "print_cr", "print"})

\* what the driver has fed to the tracker, in order
Feeds == SelectSeq(term, LAMBDA e : e.op = "update_from_line")

\* the open segment, written or fed when the driver leaves its loop
LastLine(op) ==
    IF exit_cause \in {"not_alive", "read_err"} /\ line_buffer # <<>>
       /\ (op = "println" => Kept(line_buffer))
    THEN <<Event(op, line_buffer)>>
    ELSE <<>>

\* C23: in run_pacman_pty a '\n' prints the buffered line unchanged if it is
\* kept, a '\r' redraws it if it is non-empty and kept, and both clear the
\* buffer; in run_pacman_sync '\n' and '\r' feed a non-empty buffer to the
\* tracker and clear it; the buffer never holds '\n' or '\r', and every
\* buffered text is written or fed exactly where it ends, once
C23_LineHandling ==
    /\ \A i \in 1..Len(line_buffer) : line_buffer[i] \notin {"\n", "\r"}
    /\ pty_pc \notin {"idle", "start", "err_spawn"} =>
         LET segs == Segments(seen, 1, <<>>, <<>>, TRUE)
         IN  /\ line_buffer = segs.open
             /\ Writes = FlatMap(WrittenFor, segs.ended)
                         \o (IF pty_pc = "done" THEN LastLine("println") ELSE <<>>)
                         \o (IF pty_pc = "done" /\ exit_cause = "read_err"
                             THEN <<Event("print", <<ESC, "[", "0", "m">>)>> ELSE <<>>)
    /\ sync_pc \notin {"idle", "start", "err_root", "err_spawn"} =>
         LET segs == Segments(seen, 1, <<>>, <<>>, FALSE)
         IN  /\ line_buffer = segs.open
             /\ Feeds = FlatMap(FedFor, segs.ended)
                        \o (IF sync_pc \in {"exited", "done"} /\ exit_cause = "not_alive"
                            THEN LastLine("update_from_line") ELSE <<>>)

\* a redraw, a prompt and a last line without a line break, each written
\* once
C23_Witness ==
    /\ pty_pc = "done"
    /\ exit_cause = "not_alive"
    /\ seen = <<"p", "]", ":", " ", "\r", ":", ":", "]", ":", " ", "z">>
    /\ line_buffer = <<"z">>
    /\ Writes = <<Event("print_cr", <<"p", "]", ":", " ">>),
                  Event("print", <<":", ":", "]", ":", " ">>),
                  Event("println", <<"z">>)>>


----------------------------------------------------------------------------
(* Order of the probes of get_stats, checked under SpecStats *)

\* the synchronous probes in the order of the claim
ProbeOrder ==
    <<"get_upgrade_sizes", "get_orphaned_packages", "get_mirror_url",
      "get_installed_count", "get_seconds_since_update", "get_cache_size",
      "get_pacman_version">>

ProbeRank(call) == CHOOSE k \in 1..Len(ProbeOrder) : ProbeOrder[k] = call

\* the probes get_stats has called on its own thread, in order
SyncCalls == SelectSeq(calls, LAMBDA c : c # "check_mirror_sync")

\* the probes that come after the mirror URL
LaterProbes ==
    {"get_installed_count", "get_seconds_since_update", "get_cache_size",
     "get_pacman_version"}

\* the calls made so far follow the order, none twice
ProbesInOrder ==
    \A i, j \in 1..Len(SyncCalls) :
        i < j => ProbeRank(SyncCalls[i]) < ProbeRank(SyncCalls[j])

\* the worker is launched in the step that resolves the mirror URL and in
\* no other: the URL it is given is the resolved one, and no later probe
\* has been called at that point
WorkerLaunchedWithMirrorUrl ==
    (worker_pc = "none" /\ worker_pc' # "none") =>
        /\ calls' = Append(calls, "get_mirror_url")
        /\ worker_url' = stats'.mirror_url
        /\ \A k \in 1..Len(calls) : calls[k] \notin LaterProbes

\* C24: the synchronous probes of one get_stats call run in the order
\* upgrade transaction, orphans, mirror URL, installed count, last update,
\* cache size, version, each at most once, whatever the order and repetition
\* of the request; the sync-age worker is launched in the step that resolves
\* the mirror URL, before any later probe starts
C24_FixedProbeOrder == []ProbesInOrder /\ [][WorkerLaunchedWithMirrorUrl]_vars

\* a request that names the cache size before the installed count
C24_Witness ==
    /\ requested = <<"CacheSize", "Installed">>
    /\ pc = "done"
    /\ calls = <<"get_installed_count", "get_cache_size", "get_pacman_version">>


----------------------------------------------------------------------------
(* The mirror speed test: the caller of src/src/main.rs:146-162 (the same
   code is at src/src/managers/pacman.rs:671-691), the worker running
   test_mirror_speed_with_progress_impl (src/src/managers/pacman.rs:324-377)
   and the progress loop of display_stats_with_graphics
   (src/src/ui/mod.rs:213-227, 245) *)

\* most bytes the mirror delivers for the test file
MaxBody == 2

\* `let mut buffer = vec![0; 8192]`
ReadBufSize == 8192

\* tick_strings: seven frames, the eighth string is shown when finished
SpinnerFrames == 7

\* how the request of lines 336-347 can end
RequestOutcomes == {"build_err", "send_err", "bad_status", "ok"}

InitSpeed ==
    /\ StatsIdle
    /\ SyncIdle
    /\ PtyIdle
    /\ PureIdle
    /\ up_pc = "idle"
    /\ text_mode = FALSE
    /\ sync_first = FALSE
    /\ steps = <<>>
    /\ st_pc = "spawn"
    /\ tw_pc = "none"
    /\ progress_q = <<>>
    /\ progress_tx = FALSE
    /\ speed_q = <<>>
    /\ speed_tx = FALSE
    /\ body_len \in 0..MaxBody
    /\ total_size = 0
    /\ downloaded = 0
    /\ tw_speed = None
    /\ pb_position = 0
    /\ spinner = 0
    /\ speed = "none"

\* whether the Receivers still exist: display_stats_with_graphics owns them
receivers_alive == st_pc \in {"loop", "recv_speed"}

\* Sender::send: the value is queued unless the Receiver is gone
send(queue, value) == IF receivers_alive THEN Append(queue, value) ELSE queue

\* main.rs:147-157: the two channels are created, the worker is spawned and
\* display_stats_with_graphics is entered; ui/mod.rs:105-211 draws the stats
\* and a failed terminal write returns early through `?`
StSpawn ==
    /\ st_pc = "spawn"
    /\ \E drawn \in BOOLEAN : st_pc' = IF drawn THEN "loop" ELSE "err_io"
    /\ tw_pc' = "request"
    /\ progress_tx' = TRUE
    /\ speed_tx' = TRUE
    /\ UNCHANGED <<progress_q, speed_q, body_len, total_size, downloaded, tw_speed,
                   pb_position, spinner, speed, stats_vars, sync_vars, pty_vars,
                   upgrade_vars, pure_vars>>

\* the worker returns from test_mirror_speed_with_progress: the callback,
\* and with it progress_tx, is dropped
tw_return(result) ==
    /\ tw_speed' = result
    /\ tw_pc' = "send_speed"
    /\ progress_tx' = FALSE

\* managers/pacman.rs:334-348
TwRequest ==
    /\ tw_pc = "request"
    /\ \E outcome \in RequestOutcomes :
         IF outcome = "ok"
         THEN /\ \E content_length \in 0..MaxBody : total_size' = content_length
              /\ tw_pc' = "reading"
              /\ UNCHANGED <<tw_speed, progress_tx>>
         ELSE /\ tw_return(None)
              /\ UNCHANGED total_size
    /\ UNCHANGED <<st_pc, progress_q, speed_q, speed_tx, body_len, downloaded,
                   pb_position, spinner, speed, stats_vars, sync_vars, pty_vars,
                   upgrade_vars, pure_vars>>

\* managers/pacman.rs:352-376: one response.read, and after Ok(0) the speed
TwRead ==
    /\ tw_pc = "reading"
    /\ \/ \* Ok(0) => break
          /\ downloaded = body_len
          /\ \E seconds \in {0, 1} :
               tw_return(IF seconds > 0 THEN Some(<<downloaded, seconds>>) ELSE None)
          /\ UNCHANGED <<downloaded, progress_q>>
       \/ \* Ok(n)
          \E n \in 1..(body_len - downloaded) :
            /\ n <= ReadBufSize
            /\ downloaded' = downloaded + n
            /\ progress_q' = IF total_size > 0
                             THEN send(progress_q, ((downloaded + n) * 100) \div total_size)
                             ELSE progress_q
            /\ UNCHANGED <<tw_pc, tw_speed, progress_tx>>
       \/ \* Err(_) => return None
          /\ tw_return(None)
          /\ UNCHANGED <<downloaded, progress_q>>
    /\ UNCHANGED <<st_pc, speed_q, speed_tx, body_len, total_size, pb_position, spinner,
                   speed, stats_vars, sync_vars, pty_vars, upgrade_vars, pure_vars>>

\* main.rs:153: `let _ = speed_tx.send(speed)`, then the closure ends
TwSendSpeed ==
    /\ tw_pc = "send_speed"
    /\ speed_q' = send(speed_q, tw_speed)
    /\ speed_tx' = FALSE
    /\ tw_pc' = "finished"
    /\ UNCHANGED <<st_pc, progress_q, progress_tx, body_len, total_size, downloaded,
                   tw_speed, pb_position, spinner, speed, stats_vars, sync_vars, pty_vars,
                   upgrade_vars, pure_vars>>

\* ui/mod.rs:223-225: `Err(_) => pb.tick()`, for RecvTimeoutError::Timeout
\* and RecvTimeoutError::Disconnected alike
loop_after_recv_err(disconnected) == "loop"

\* ui/mod.rs:213-227: one progress_rx.recv_timeout(100 ms)
StLoop ==
    /\ st_pc = "loop"
    /\ IF progress_q # <<>>
       THEN \* Ok(progress)
            /\ pb_position' = Head(progress_q)
            /\ progress_q' = Tail(progress_q)
            /\ st_pc' = IF Head(progress_q) >= 100 THEN "recv_speed" ELSE "loop"
            /\ UNCHANGED spinner
       ELSE \* Err(Timeout), or Err(Disconnected) once the Sender is gone
            /\ spinner' = (spinner + 1) % SpinnerFrames
            /\ st_pc' = loop_after_recv_err(~progress_tx)
            /\ UNCHANGED <<pb_position, progress_q>>
    /\ UNCHANGED <<tw_pc, progress_tx, speed_q, speed_tx, body_len, total_size,
                   downloaded, tw_speed, speed, stats_vars, sync_vars, pty_vars,
                   upgrade_vars, pure_vars>>

\* ui/mod.rs:245: speed_rx.recv() blocks until the worker has sent
StRecvSpeed ==
    /\ st_pc = "recv_speed"
    /\ speed_q # <<>>
    /\ speed' = Head(speed_q)
    /\ speed_q' = Tail(speed_q)
    /\ st_pc' = "done"
    /\ UNCHANGED <<tw_pc, progress_q, progress_tx, speed_tx, body_len, total_size,
                   downloaded, tw_speed, pb_position, spinner, stats_vars, sync_vars,
                   pty_vars, upgrade_vars, pure_vars>>

NextSpeed ==
    \/ StSpawn
    \/ TwRequest
    \/ TwRead
    \/ TwSendSpeed
    \/ StLoop
    \/ StRecvSpeed

SpecSpeed == InitSpeed /\ [][NextSpeed]_vars

\* the main thread and the worker are threads the scheduler keeps running
SpecSpeedFair ==
    /\ SpecSpeed
    /\ WF_vars(StSpawn) /\ WF_vars(StLoop) /\ WF_vars(StRecvSpeed)
    /\ WF_vars(TwRequest) /\ WF_vars(TwRead) /\ WF_vars(TwSendSpeed)

\* C28: once the transfer-rate worker has finished, the progress loop of
\* display_stats_with_graphics ends, whether or not a progress value of 100
\* was ever sent, and the consumer goes on to receive the speed
C28_LoopEndsWhenWorkerFinishes ==
    (tw_pc = "finished") ~> (st_pc # "loop")


----------------------------------------------------------------------------
(* get_stats followed by the speed test, src/src/main.rs:108-162 *)

\* requests whose stats carry a mirror URL, with and without the sync age
SpeedTestRequests == {<<"MirrorUrl">>, <<"MirrorHealth">>}

InitWorkers ==
    /\ requested \in SpeedTestRequests
    /\ pc = "upgrade"
    /\ stats = DefaultStats
    /\ sync_handle = FALSE
    /\ worker_pc = "none"
    /\ worker_url = None
    /\ worker_result = None
    /\ calls = <<>>
    /\ SyncIdle
    /\ PtyIdle
    /\ PureIdle
    /\ up_pc = "idle"
    /\ text_mode = FALSE
    /\ sync_first = FALSE
    /\ steps = <<>>
    /\ st_pc = "get_stats"
    /\ tw_pc = "none"
    /\ progress_q = <<>>
    /\ progress_tx = FALSE
    /\ speed_q = <<>>
    /\ speed_tx = FALSE
    /\ body_len \in 0..MaxBody
    /\ total_size = 0
    /\ downloaded = 0
    /\ tw_speed = None
    /\ pb_position = 0
    /\ spinner = 0
    /\ speed = "none"

\* main.rs:108-121, 146-147, 161: get_stats has returned (or unwound); the
\* speed test is run when the stats carry a mirror URL
StStatsReturn ==
    /\ st_pc = "get_stats"
    /\ pc \in {"done", "panicked"}
    /\ st_pc' = IF pc = "panicked" THEN "panicked"
                ELSE IF IsSome(stats.mirror_url) THEN "spawn"
                ELSE "display_stats"
    /\ UNCHANGED <<tw_pc, progress_q, progress_tx, speed_q, speed_tx, body_len,
                   total_size, downloaded, tw_speed, pb_position, spinner, speed,
                   stats_vars, sync_vars, pty_vars, upgrade_vars, pure_vars>>

NextWorkers ==
    \/ NextStats
    \/ StStatsReturn
    \/ NextSpeed

SpecWorkers == InitWorkers /\ [][NextWorkers]_vars

\* the auxiliary threads that exist
LiveWorkers ==
    (IF worker_pc \in {"spawned", "checking"} THEN {"sync_age"} ELSE {})
    \cup (IF tw_pc \in {"request", "reading", "send_speed"} THEN {"transfer_rate"} ELSE {})

\* a worker is started only where none of its kind was started before
StartedOnce ==
    /\ (worker_pc' # worker_pc /\ worker_pc' = "spawned") => (worker_pc = "none" /\ pc = "mirror")
    /\ worker_pc # "none" => worker_pc' # "none"
    /\ (tw_pc' # tw_pc /\ tw_pc' = "request") => (tw_pc = "none" /\ st_pc = "spawn")
    /\ tw_pc # "none" => tw_pc' # "none"

\* a step of the sync-age worker, of the transfer-rate worker, of the main
\* thread
SyncAgeWorkerStep == worker_pc \in {"spawned", "checking"} /\ worker_pc' # worker_pc

TransferWorkerStep ==
    tw_pc \in {"request", "reading", "send_speed"}
    /\ <<tw_pc, downloaded>>' # <<tw_pc, downloaded>>

MainStep == <<pc, st_pc, pb_position, spinner>>' # <<pc, st_pc, pb_position, spinner>>

\* what each thread owns; a worker leaves everything else alone but the
\* sending end of its channels, and the main thread takes a result only by
\* joining a terminated worker or receiving from a channel
NothingShared ==
    /\ SyncAgeWorkerStep =>
          UNCHANGED <<requested, pc, stats, sync_handle, worker_url, speed_vars>>
    /\ TransferWorkerStep =>
          /\ UNCHANGED <<stats_vars, st_pc, pb_position, spinner, speed>>
          /\ \E sent \in {<<>>} \cup {<<v>> : v \in 0..(100 * MaxBody)} :
                progress_q' = progress_q \o sent
          /\ speed_q' \in {speed_q, Append(speed_q, tw_speed)}
    /\ MainStep =>
          /\ UNCHANGED <<worker_result, total_size, downloaded, tw_speed>>
          /\ stats'.mirror_sync_age_hours # stats.mirror_sync_age_hours =>
                /\ worker_pc \in {"finished", "panicked"}
                /\ stats'.mirror_sync_age_hours = join_result(worker_pc, worker_result)
          /\ speed' # speed => (speed_q # <<>> /\ speed' = Head(speed_q))
          /\ pb_position' # pb_position =>
                (progress_q # <<>> /\ pb_position' = Head(progress_q))
    /\ ~MainStep => UNCHANGED <<stats, speed, pb_position>>

\* C25: never more than two auxiliary workers; one get_stats call starts at
\* most one sync-age worker and a caller at most one transfer-rate worker;
\* the workers share no mutable state with each other or the main thread,
\* results travel only through the join handle or the channels
C25_AtMostTwoIndependentWorkers ==
    /\ [](Cardinality(LiveWorkers) <= 2)
    /\ [][StartedOnce]_vars
    /\ [][NothingShared]_vars

\* the transfer-rate worker downloads after a get_stats call whose sync-age
\* worker was joined
C25_Witness ==
    /\ sync_handle
    /\ worker_pc = "finished"
    /\ pc = "done"
    /\ tw_pc = "reading"
    /\ downloaded > 0
    /\ st_pc = "loop"


----------------------------------------------------------------------------
(* get_upgrade_sizes as a function of the prepared transaction,
   src/src/pacman.rs:166-233 *)

\* most packages a transaction adds, and most it removes
MaxTrans == 2

\* a package of a transaction
Pkg(name, isize) == [name |-> name, download_size |-> 0, isize |-> isize]

\* packages a transaction can add: upgrades of "a" (2 MiB installed) and of
\* "c" (5000 bytes installed) that shrink, keep or grow them, by 10485 and
\* by 10486 bytes among others, and new installs of "b"
AddedPkgs ==
    {Pkg("a", MiB), Pkg("a", 2 * MiB), Pkg("c", 5000 + 10485), Pkg("c", 5000 + 10486),
     Pkg("b", 10485), Pkg("b", 10486), Pkg("b", MiB)}

\* packages a transaction can remove
RemovedPkgs == {Pkg("d", MiB), Pkg("e", 10485), Pkg("e", 10486)}

Transactions ==
    {UpgradeEnv("none", a, r) :
        a \in UNION {[1..n -> AddedPkgs] : n \in 0..MaxTrans},
        r \in UNION {[1..n -> RemovedPkgs] : n \in 0..MaxTrans}}

InitUpgradeSizes ==
    /\ OthersIdle
    /\ arg \in [fn : {"get_upgrade_sizes"}, env : Transactions]
    /\ ret = None

\* get_upgrade_sizes()
ApplyGetUpgradeSizes ==
    /\ arg.fn = "get_upgrade_sizes"
    /\ ret = None
    /\ ret' = Some(get_upgrade_sizes(arg.env))
    /\ UNCHANGED <<arg, stats_vars, sync_vars, pty_vars, up_vars>>

NextUpgradeSizes == ApplyGetUpgradeSizes

SpecUpgradeSizes == InitUpgradeSizes /\ [][NextUpgradeSizes]_vars

\* the sum of f over the positions of a sequence
RECURSIVE SumOver(_, _, _)
SumOver(f(_), seq, S) ==
    IF S = {} THEN 0
    ELSE LET k == CHOOSE x \in S : TRUE
         IN  f(seq[k]) + SumOver(f, seq, S \ {k})

\* what an added package contributes: its growth over the installed one,
\* or its whole size when it is not installed
Growth(pkg) ==
    IF pkg.name \in {"a", "c", "d"}
    THEN pkg.isize - (CASE pkg.name = "a" -> 2 * MiB
                        [] pkg.name = "c" -> 5000
                        [] pkg.name = "d" -> MiB)
    ELSE pkg.isize

Size(pkg) == pkg.isize

\* the net size in bytes before the small values are zeroed
RawNet(env) ==
    SumOver(Growth, env.adds, DOMAIN env.adds)
    - SumOver(Size, env.removes, DOMAIN env.removes)

\* C26: the net size is the sum over the added packages of their growth
\* (their whole size when not installed) minus the sizes of the removed
\* packages, reported as zero when it is within 0.01 MiB of zero
C26_NetUpgradeSize ==
    (arg.fn = "get_upgrade_sizes" /\ IsSome(ret)) =>
        LET raw == RawNet(arg.env)
            small == raw * 100 < MiB /\ -raw * 100 < MiB
        IN  /\ ret[1].net_upgrade_size_mb = Some(IF small THEN 0 ELSE raw)
            /\ (Len(arg.env.removes) = 0 /\ Len(arg.env.adds) = 1
                /\ arg.env.adds[1].name = "b" /\ ~small) =>
                  ret[1].net_upgrade_size_mb = Some(arg.env.adds[1].isize)
            /\ (Len(arg.env.adds) = 0 /\ Len(arg.env.removes) = 1 /\ ~small) =>
                  ret[1].net_upgrade_size_mb = Some(-arg.env.removes[1].isize)

\* an upgrade that grows a package by 10486 bytes and a removal of 10485
\* bytes: one byte net, reported as zero
C26_Witness ==
    /\ arg.fn = "get_upgrade_sizes"
    /\ arg.env.adds = <<Pkg("c", 5000 + 10486)>>
    /\ arg.env.removes = <<Pkg("e", 10485)>>
    /\ ret # None
    /\ ret[1].net_upgrade_size_mb = Some(0)


----------------------------------------------------------------------------
(* Termination of the two drivers *)

\* short outputs: lines with and without a line break at the end, with and
\* without a prompt
ShortSyncOutputs == {<<"c", "\n", "e">>, <<"\r">>}

ShortPtyOutputs ==
    {<<"]", ":", " ", ":", ":", "]", ":", " ", "a">>,
     <<"[", "Y", "/", "n", "]", " ", "a", "\n">>}

InitSyncShort ==
    /\ StatsIdle
    /\ PtyIdle
    /\ UpIdle
    /\ PureIdle
    /\ read_result = "none"
    /\ is_root \in BOOLEAN
    /\ sync_pc = "start"
    /\ progress = SyncProgress_new
    /\ line_buffer = <<>>
    /\ output \in ShortSyncOutputs
    /\ written = 0
    /\ consumed = 0
    /\ proc_alive = FALSE
    /\ exit_cause = "none"
    /\ at_exit = SyncProgress_new

InitPtyShort ==
    /\ StatsIdle
    /\ UpIdle
    /\ PureIdle
    /\ sync_pc = "idle"
    /\ progress = SyncProgress_new
    /\ at_exit = SyncProgress_new
    /\ is_root = FALSE
    /\ read_result = "none"
    /\ line_buffer = <<>>
    /\ output \in ShortPtyOutputs
    /\ written = 0
    /\ consumed = 0
    /\ proc_alive = FALSE
    /\ exit_cause = "none"
    /\ pty_pc = "start"
    /\ filter \in BOOLEAN
    /\ term = <<>>
    /\ chunk_rest = <<>>
    /\ seen = <<>>

\* a step of the subprocess: at most one of the two is enabled
ProcStep == ProcWrite \/ ProcExit

\* a step of the thread that runs the driver: its position enables at most
\* one of them
DriverStep ==
    \/ SyncCheckAlive
    \/ SyncRead
    \/ SyncFinish
    \/ PtyCheckAlive
    \/ PtyRead
    \/ PtyFinish

\* the subprocess keeps running until it exits, the driver's thread keeps
\* running, and the operator answers every prompt
SpecDriversFair ==
    /\ (InitSyncShort \/ InitPtyShort)
    /\ [][NextDrivers]_vars
    /\ WF_vars(ProcStep)
    /\ WF_vars(DriverStep)
    /\ WF_vars(PtyStdin)

\* a read of zero bytes goes back to the liveness check
ZeroReadRechecks ==
    /\ (sync_pc = "read" /\ sync_pc' # sync_pc /\ read_result' = "Ok(0)") =>
          sync_pc' = "check_alive"
    /\ (pty_pc = "read" /\ pty_pc' # pty_pc /\ read_result' = "Ok(0)") =>
          pty_pc' = "check_alive"

\* C27: after a successful spawn each driver eventually returns, and what
\* it returns is Ok; a zero-byte read goes back to the liveness check
C27_DriversReturnOk ==
    /\ (sync_pc = "check_alive") ~> (sync_pc = "done")
    /\ (pty_pc = "check_alive") ~> (pty_pc = "done")
    /\ [](proc_alive => (sync_pc \notin {"err_root", "err_spawn"} /\ pty_pc # "err_spawn"))
    /\ [][sync_pc \notin {"idle", "start"} => sync_pc' \notin {"err_root", "err_spawn"}]_vars
    /\ [][pty_pc \notin {"idle", "start"} => pty_pc' # "err_spawn"]_vars
    /\ [][ZeroReadRechecks]_vars

\* run_pacman_pty has returned after a prompt was answered and a read gave
\* zero bytes
C27_Witness ==
    /\ pty_pc = "done"
    /\ read_result = "Ok(0)"
    /\ \E k \in 1..Len(term) : term[k].op = "stdin"


----------------------------------------------------------------------------
(* Independence of the read chunks, checked under SpecDrivers *)

\* the whole output decoded in one piece
WholeOutput == from_utf8_lossy(output, 1)

\* the driver has scanned all the subprocess emitted and is still in its
\* loop
AllScanned ==
    /\ output # <<>>
    /\ consumed = Len(output)
    /\ \/ sync_pc \in {"check_alive", "read"}
       \/ pty_pc \in {"check_alive", "read"}

\* C29: once the whole output has been read, the lines printed, the
\* prompts shown and the lines fed to the tracker are those of the output
\* read in one piece, however the reads cut it
C29_ChunkingIndependent ==
    AllScanned =>
        LET segs == Segments(WholeOutput, 1, <<>>, <<>>, pty_pc # "idle")
        IN  /\ line_buffer = segs.open
            /\ pty_pc # "idle" =>
                  /\ Writes = FlatMap(WrittenFor, segs.ended)
                  /\ Cardinality({k \in 1..Len(term) : term[k].op = "stdin"})
                       = Cardinality({k \in 1..Len(segs.ended) :
                                         segs.ended[k].end = "prompt"})
            /\ sync_pc # "idle" =>
                  Feeds = FlatMap(FedFor, segs.ended)


----------------------------------------------------------------------------
(* Order of the steps of upgrade_system, checked under SpecUpgrade *)

\* how the stats can be displayed
Displays ==
    IF text_mode THEN {<<"display_stats">>}
    ELSE {<<"display_stats_with_graphics">>,
          <<"display_stats_with_graphics", "display_stats">>}

\* the complete runs of upgrade_system
FullRuns ==
    {<<"upgrade_system", "Config::load">>
       \o (IF sync_first THEN <<"run_pacman_sync">> ELSE <<>>)
       \o <<"get_stats">> \o display \o <<"run_pacman_pty">> : display \in Displays}

IsPrefix(s, t) == Len(s) <= Len(t) /\ s = SubSeq(t, 1, Len(s))

\* what the callees have done agrees with the steps taken
CalleesFollowSteps ==
    /\ ~sync_first => sync_pc = "idle"
    /\ pc # "idle" => (is_root /\ (sync_first => sync_pc = "done"))
    /\ pty_pc # "idle" => (pc = "done" /\ filter /\ steps[Len(steps)] = "run_pacman_pty")
    /\ sync_pc \in {"err_root", "err_spawn"} =>
          /\ pc = "idle"
          /\ pty_pc = "idle"
          /\ up_pc \in {"in_sync", sync_pc}
    /\ up_pc \in {"err_root", "err_spawn"} /\ pty_pc = "idle" =>
          \A k \in 1..Len(steps) : steps[k] \notin {"get_stats", "run_pacman_pty"}

\* the upgrade subprocess is started from the idle driver only
PtyStartedOnce ==
    /\ (pty_pc' # pty_pc /\ pty_pc' = "start") => pty_pc = "idle"
    /\ pty_pc # "idle" => pty_pc' # "idle"

\* C30: upgrade_system checks for root, syncs the databases only when
\* sync_first, gathers the stats, displays them and runs the upgrade
\* subprocess with the filter on, in this order; an error of the sync is
\* returned with no stats gathered and no upgrade run; the upgrade
\* subprocess is started at most once
C30_StepsInOrder ==
    /\ [](steps # <<>> /\ steps[1] = "upgrade_system" =>
            /\ \E run \in FullRuns : IsPrefix(steps, run)
            /\ CalleesFollowSteps)
    /\ [][PtyStartedOnce]_vars

\* a complete run with the database sync first
C30_Witness ==
    /\ sync_first
    /\ up_pc = "ok"
    /\ steps \in FullRuns
    /\ sync_pc = "done"
    /\ pc = "done"
    /\ pty_pc = "done"

====
